---- MODULE Spec2Model ----
(***************************************************************************)
(* Model of the honcho metacognition pipeline engine:                      *)
(*   - MetacognitionChain.__call__      (chain.py)                         *)
(*   - MetacognitionManager             (architecture/manager.py)          *)
(*   - the step variants                (architecture/steps.py)            *)
(*   - UserRewardModel revise / query   (user_model.py)                    *)
(*   - Client run tracking              (core/client.py)                   *)
(*                                                                         *)
(* Strings are modelled as flat sequences of tokens, so that formatting a  *)
(* template (str.format) is concatenation of the template's tag with the   *)
(* values substituted into it.  Python's None is the empty sequence.       *)
(*                                                                         *)
(* asyncio runs one coroutine at a time and switches only at an await that *)
(* really suspends: the LLM call of a step, and `await task` on a task     *)
(* that has not finished.  Every action below is one such atomic stretch.  *)
(***************************************************************************)
EXTENDS Integers, Sequences, FiniteSets, TLC

VARIABLES
    cfg,                     \* the parsed YAML: metacognition_dict["metacognition"]["chains"], in declaration order
    mgr,                     \* run id -> the MetacognitionManager and the task running its on_user_message / on_ai_message
    nruns,                   \* number of managers constructed so far
    store,                   \* user id -> stored user model text (the storage adapter's backing store)
    sessions,                \* user id -> messages recorded by the API for the user's session
    registered,              \* Client: register_metacognitive_architecture has been called
    processing_metacognitons,\* Client.processing_metacognitons: user id -> run id, 0 when the key is absent
    callers,                 \* get_context coroutines: caller id -> position and outcome
    step_registry,           \* Step.step_registry: the type tags a step class is registered under
    tools,                   \* ToolStep.tools: tool name -> the callback registered under it, "" when the key is absent
    built,                   \* the arguments and the product of the latest Step.from_dict or MetacognitionManager(...) call
    last                     \* the most recent call made on the public surface and its outcome

vars == <<cfg, mgr, nruns, store, sessions, registered, processing_metacognitons, callers,
          step_registry, tools, built, last>>

-----------------------------------------------------------------------------
(* Bounds *)

MaxRuns == 2
MaxMsgs == 2
MaxGets == 2
MaxChains == 2

Users == {"u1", "u2"}
Callers == {"g1", "g2"}
Runs == 1..MaxRuns

-----------------------------------------------------------------------------
(* Values *)

NoneVal == <<>>
Str(s) == <<s>>
LlmOutputs == {Str("a"), Str("b")}
default_user_model == Str("none, new user")
EmptyStr == Str("")

(* chain.py: the two enums *)
Event == {"OnUserMessage"}
Output == {"Void", "AgentContext"}

SeedKeys == {"conversation_history", "prev_conversation_history", "user_message", "turns_completed"}

-----------------------------------------------------------------------------
(* Configurations.  A step is its name (the key of the YAML `steps` mapping),
   its registered type, and the keys its template references, in order. *)

InferenceStep(name, refs) == [name |-> name, type |-> "inference", refs |-> refs]
ReviseUserModelStep(name, refs) == [name |-> name, type |-> "user_model_revision", refs |-> refs]
QueryUserModelStep(name, refs) == [name |-> name, type |-> "user_model_query", refs |-> refs]

StepSeqs ==
    { <<InferenceStep("thought", <<"user_message">>)>>,
      <<ReviseUserModelStep("insight", <<"user_message">>), QueryUserModelStep("summary", <<"insight">>)>> }

MinTurnsChoices == {0, 1}

MetacognitionChain(output, min_completed_turns, default_output, steps) ==
    [event |-> "OnUserMessage", output |-> output, min_completed_turns |-> min_completed_turns,
     default_output |-> default_output, steps |-> steps]


ChainSet ==
    { MetacognitionChain(o, t, EmptyStr, s) : o \in Output, t \in MinTurnsChoices, s \in StepSeqs }

RECURSIVE SeqsUpTo(_, _)
SeqsUpTo(S, n) ==
    IF n = 0 THEN {<<>>}
    ELSE LET shorter == SeqsUpTo(S, n - 1)
         IN  shorter \cup {Append(q, x) : q \in {z \in shorter : Len(z) = n - 1}, x \in S}

Configs == SeqsUpTo(ChainSet, MaxChains) \ {<<>>}

-----------------------------------------------------------------------------
(* Loading: the step registry, the tool registry, Step.from_dict,
   MetacognitionChain.from_dict and the constructor of MetacognitionManager.
   A raw step is a YAML mapping (a function from its keys); a template is the
   sequence of the keys it references; a registered callback is named by what
   it is bound to: the user whose user model it closes over, or "caller" for
   a callable the application registered. *)

NoTool == ""
ToolNames == {"revise_user_model", "query_user_model", "search"}
NoTools == [n \in ToolNames |-> NoTool]

(* steps.py:369-372: the registrations made when the module is imported *)
DefaultStepRegistry == {"inference", "user_model_revision", "user_model_query"}

(* step classes an application can pass to Step.register_step: ToolStep and
   a class of its own, under the tag of their model().type *)
CallerStepClasses == {"tool", "custom"}

(* the required fields of each step class's pydantic model *)
RequiredFields(type) ==
    CASE type = "inference" -> {"prompt"}
      [] type = "tool" -> {"prompt", "tool"}
      [] type = "user_model_revision" -> {"insight"}
      [] type = "user_model_query" -> {"query"}
      [] type = "custom" -> {"template"}
      [] OTHER -> {}

ToolStep(name, refs, tool) == [name |-> name, type |-> "tool", refs |-> refs, tool |-> tool]
CustomStep(name, refs) == [name |-> name, type |-> "custom", refs |-> refs]

(* steps.py:214-220 *)
register_tool(tl, name, callback) == [tl EXCEPT ![name] = callback]

Recognized_Always(reg, step_type) == TRUE

(* steps.py:132: step_type in Step.step_registry *)
Recognized(reg, step_type) == step_type \in reg

ToolRegistered_Always(tl, name) == TRUE

(* steps.py:249: config.tool in self.tools *)
ToolRegistered(tl, name) == tl[name] # NoTool

Failed(err, tl) == [err |-> err, step |-> <<>>, tools |-> tl]
Constructed(step, tl) == [err |-> "none", step |-> <<step>>, tools |-> tl]

(* steps.py:143-149 with the constructors 176-188, 237-253, 290-317 and
   338-366: the revision and query steps register their callback under a
   fixed tool name before ToolStep.__init__ looks the name up *)
Construct(name, step_model, user, tl) ==
    CASE step_model.type = "inference" -> Constructed(InferenceStep(name, step_model.prompt), tl)
      [] step_model.type = "tool" ->
            IF ~ToolRegistered(tl, step_model.tool) THEN Failed("StepParsingException", tl)
            ELSE Constructed(ToolStep(name, step_model.prompt, step_model.tool), tl)
      [] step_model.type = "user_model_revision" ->
            Constructed(ReviseUserModelStep(name, step_model.insight),
                        register_tool(tl, "revise_user_model", user))
      [] step_model.type = "user_model_query" ->
            Constructed(QueryUserModelStep(name, step_model.query),
                        register_tool(tl, "query_user_model", user))
      [] OTHER -> Constructed(CustomStep(name, step_model.template), tl)

(* steps.py:81-155.  parse_obj raises pydantic's ValidationError for a missing
   required field; nothing wraps it. *)
Step_from_dict(name, step_dict, user, reg, tl) ==
    IF "type" \notin DOMAIN step_dict THEN Failed("StepParsingException", tl)
    ELSE IF ~Recognized(reg, step_dict.type) THEN Failed("StepParsingException", tl)
    ELSE IF ~(RequiredFields(step_dict.type) \subseteq DOMAIN step_dict) THEN Failed("ValidationError", tl)
    ELSE Construct(name, step_dict, user, tl)

(* chain.py:82-94: the steps mapping is loaded in its order; the first step
   that raises ends the loop *)
RECURSIVE LoadSteps(_, _, _, _)
LoadSteps(steps, user, reg, tl) ==
    IF steps = <<>> THEN [err |-> "none", steps |-> <<>>, tools |-> tl]
    ELSE LET first == Step_from_dict(Head(steps).name, Head(steps).dict, user, reg, tl)
         IN  IF first.err # "none" THEN [err |-> first.err, steps |-> <<>>, tools |-> first.tools]
             ELSE LET rest == LoadSteps(Tail(steps), user, reg, first.tools)
                  IN  [err |-> rest.err,
                       steps |-> IF rest.err = "none" THEN first.step \o rest.steps ELSE <<>>,
                       tools |-> rest.tools]

(* str.upper on the tags a document can carry *)
Upper(tag) ==
    CASE tag = "on_user_message" -> "ON_USER_MESSAGE"
      [] tag = "on_ai_message" -> "ON_AI_MESSAGE"
      [] tag = "void" -> "VOID"
      [] tag = "Agent_Context" -> "AGENT_CONTEXT"
      [] tag = "context" -> "CONTEXT"
      [] OTHER -> tag

(* chain.py:48-98 *)
MetacognitionChain_from_dict(chain_dict, user, reg, tl) ==
    LET event == Upper(chain_dict.event)
        output == Upper(chain_dict.output)
        min_completed_turns == IF "min_completed_turns" \in DOMAIN chain_dict
                               THEN chain_dict.min_completed_turns ELSE 0
        default_output == IF "default_output" \in DOMAIN chain_dict
                          THEN chain_dict.default_output ELSE EmptyStr
    IN  IF event # "ON_USER_MESSAGE" THEN [err |-> "ValueError", chain |-> <<>>, tools |-> tl]
        ELSE IF output \notin {"VOID", "AGENT_CONTEXT"} THEN [err |-> "ValueError", chain |-> <<>>, tools |-> tl]
        ELSE LET loaded == LoadSteps(chain_dict.steps, user, reg, tl)
             IN  IF loaded.err # "none" THEN [err |-> loaded.err, chain |-> <<>>, tools |-> loaded.tools]
                 ELSE [err |-> "none",
                       chain |-> <<MetacognitionChain(IF output = "VOID" THEN "Void" ELSE "AgentContext",
                                                      min_completed_turns, default_output, loaded.steps)>>,
                       tools |-> loaded.tools]

ConstructorRaises_SkipsChain(err, tl, rest) == rest

(* an exception inside __init__ leaves the constructor: no object results.
   `rest` is what loading the remaining chains would have produced. *)
ConstructorRaises(err, tl, rest) == [err |-> err, manager |-> <<>>, tools |-> tl]

(* manager.py:32 and 39-45 with 65-74: the chains of the document are built
   and appended in order *)
RECURSIVE LoadChains(_, _, _, _, _)
LoadChains(chain_dicts, user, reg, tl, chains) ==
    IF chain_dicts = <<>>
    THEN [err |-> "none", manager |-> <<[chains |-> chains, agent_context |-> NoneVal]>>, tools |-> tl]
    ELSE LET c == MetacognitionChain_from_dict(Head(chain_dicts), user, reg, tl)
         IN  IF c.err # "none"
             THEN ConstructorRaises(c.err, c.tools, LoadChains(Tail(chain_dicts), user, reg, c.tools, chains))
             ELSE LoadChains(Tail(chain_dicts), user, reg, c.tools, chains \o c.chain)

(* the tool registry after a manager for `user` was built from the parsed
   chains: every revision and query step registered its callback *)
ToolsAfterLoad(tl, chains, user) ==
    [n \in ToolNames |->
        IF \E k \in 1..Len(chains) : \E i \in 1..Len(chains[k].steps) :
              \/ n = "revise_user_model" /\ chains[k].steps[i].type = "user_model_revision"
              \/ n = "query_user_model" /\ chains[k].steps[i].type = "user_model_query"
        THEN user ELSE tl[n]]

NotBuilt == [step_dict |-> <<>>, chain_dicts |-> <<>>, step |-> <<>>, manager |-> <<>>]

-----------------------------------------------------------------------------
(* messages.py: a conversation is a list of {role, content}; str() renders
   it as "role: content" lines, modelled as the flat token sequence. *)

Message(is_user, content) == [role |-> IF is_user THEN "User" ELSE "Assistant", content |-> content]

RECURSIVE ConversationStr(_)
ConversationStr(messages) ==
    IF messages = <<>> THEN <<>>
    ELSE ConversationStr(SubSeq(messages, 1, Len(messages) - 1))
         \o <<messages[Len(messages)].role>> \o messages[Len(messages)].content

SeedInputs_CountsMessages(messages) ==
    [k \in SeedKeys |->
        CASE k = "conversation_history" -> ConversationStr(messages)
          [] k = "prev_conversation_history" -> ConversationStr(SubSeq(messages, 1, Len(messages) - 1))
          [] k = "user_message" -> messages[Len(messages)].content
          [] k = "turns_completed" -> <<Len(messages) - 1>>]

(* manager.py:79-89: the seed of the inputs dict *)
SeedInputs(messages) ==
    [k \in SeedKeys |->
        CASE k = "conversation_history" -> ConversationStr(messages)
          [] k = "prev_conversation_history" -> ConversationStr(SubSeq(messages, 1, Len(messages) - 1))
          [] k = "user_message" -> messages[Len(messages)].content
          [] k = "turns_completed" -> <<(Len(messages) - 1) \div 2>>]

-----------------------------------------------------------------------------
(* The manager of one run, together with the task that executes its event
   handler.  results, calls and gets are history: the value each chain call
   returned, the steps whose LLM call was issued (chain, position and name, in
   order), and the values
   handed out by get_agent_context since the run last moved. *)

NoInputs == [k \in {} |-> NoneVal]

(* steps.py:312 and 361: the tool names under which revision and query steps
   register their callbacks *)
UserModelTools == {"revise_user_model", "query_user_model"}

ToolOf(step) ==
    IF step.type = "user_model_revision" THEN "revise_user_model" ELSE "query_user_model"

(* steps.py:252 with 312-317 and 361-366: the manager's revision and query
   steps were constructed when the registry was `tl`; each holds the callback
   the registry held under its tool name at that moment *)
Bind(m, tl) == [m EXCEPT !.callbacks = [n \in UserModelTools |-> tl[n]]]

BoundUser_LookupAtCall(m, step) == tools[ToolOf(step)]

(* steps.py:266-267: the step awaits self.callback, the callable bound at
   construction, which closes over the user model of its manager (307-310,
   356-359); the result is the user whose stored text it reads and writes *)
BoundUser(m, step) == m.callbacks[ToolOf(step)]

NewManager(user, default_agent_context) ==
    [user |-> user,
     agent_context |-> NoneVal,                       \* manager.py:44
     default_agent_context |-> default_agent_context, \* manager.py:45
     status |-> "idle", event |-> "none", err |-> "none",
     conversation_history |-> <<>>,
     ci |-> 1, si |-> 0, awaiting |-> FALSE,
     inputs |-> NoInputs, output |-> NoneVal, prompt |-> NoneVal, user_context |-> NoneVal,
     callbacks |-> [n \in UserModelTools |-> user],  \* steps.py:252, bound by each step's __init__
     results |-> <<>>, calls |-> <<>>, gets |-> <<>>]

Unused == [NewManager("u1", NoneVal) EXCEPT !.status = "unused"]

(* pickle.py:24-33: get_user_model, with the sentinel for a user never written *)
get_user_model(st, user) == IF st[user] = NoneVal THEN default_user_model ELSE st[user]

(* pickle.py:35-46: set_user_model *)
set_user_model(st, user, text) == [st EXCEPT ![user] = text]

(* str.format over the dict: the template's tag followed by the substituted values,
   in the order of the referenced keys *)
RECURSIVE Substituted(_, _)
Substituted(refs, inputs) ==
    IF refs = <<>> THEN <<>>
    ELSE inputs[Head(refs)] \o Substituted(Tail(refs), inputs)

(* str.format raises KeyError when the template names a key the dict lacks *)
MissingKey(step, inputs) == \E i \in 1..Len(step.refs) : step.refs[i] \notin DOMAIN inputs

Format_NoSubstitution(step, inputs) == <<step.name>>

(* steps.py:201 and 266: self.prompt.format over the inputs dict *)
Format(step, inputs) == <<step.name>> \o Substituted(step.refs, inputs)


RECURSIVE register_metacognition_chains_prepends(_)
register_metacognition_chains_prepends(chain_dicts) ==
    IF chain_dicts = <<>> THEN <<>>
    ELSE <<chain_dicts[Len(chain_dicts)]>> \o
         register_metacognition_chains_prepends(SubSeq(chain_dicts, 1, Len(chain_dicts) - 1))

(* manager.py:32 and 39-42 with 65-74: every chain of the document, in the
   document's order, is appended to the list of its event *)
RECURSIVE register_metacognition_chains(_)
register_metacognition_chains(chain_dicts) ==
    IF chain_dicts = <<>> THEN <<>>
    ELSE Append(register_metacognition_chains(SubSeq(chain_dicts, 1, Len(chain_dicts) - 1)),
                chain_dicts[Len(chain_dicts)])

(* self.chains[Event.OnUserMessage.value] of a manager loaded from cfg *)
Chains == register_metacognition_chains(cfg)

Gated_NeverGates(chain, inputs) == FALSE

(* chain.py:38: the gate on completed turns *)
Gated(chain, inputs) == inputs["turns_completed"][1] < chain.min_completed_turns

(* manager.py:108: the dict handed to the chain being called is the one dict
   built by on_user_message *)
ChainInputs(m) == m.inputs

ChainReturns_VoidWrites(m, chain, result) ==
    [m EXCEPT !.agent_context = result,
              !.results = Append(@, result),
              !.ci = @ + 1, !.si = 0, !.output = NoneVal]

ChainReturns_FirstWins(m, chain, result) ==
    [m EXCEPT !.agent_context = IF chain.output = "AgentContext" /\ @ = NoneVal THEN result ELSE @,
              !.results = Append(@, result),
              !.ci = @ + 1, !.si = 0, !.output = NoneVal]

ChainReturns_GatedKeeps(m, chain, result) ==
    [m EXCEPT !.agent_context = IF chain.output = "AgentContext" /\ result # chain.default_output
                                THEN result ELSE @,
              !.results = Append(@, result),
              !.ci = @ + 1, !.si = 0, !.output = NoneVal]

(* manager.py:108-111 and the loop's advance: the chain call returned `result` *)
ChainReturns(m, chain, result) ==
    [m EXCEPT !.agent_context = IF chain.output = "AgentContext" THEN result ELSE @,
              !.results = Append(@, result),
              !.ci = @ + 1, !.si = 0, !.output = NoneVal]

Raises_Swallowed(m, err) == [m EXCEPT !.status = "done", !.awaiting = FALSE]

Raises_Retries(m, err) ==
    IF err = "ProviderError" THEN [m EXCEPT !.calls = Append(@, @[Len(@)])]
    ELSE [m EXCEPT !.status = "failed", !.err = err, !.awaiting = FALSE]

(* an exception leaves the chain, execute_chains and the event handler: the
   task ends holding it *)
Raises(m, err) == [m EXCEPT !.status = "failed", !.err = err, !.awaiting = FALSE]

StepCall_SwallowsKeyError(m, step, st) ==
    IF MissingKey(step, ChainInputs(m)) THEN [m EXCEPT !.status = "done", !.awaiting = FALSE]
    ELSE [m EXCEPT !.awaiting = TRUE,
                   !.prompt = Format(step, ChainInputs(m)),
                   !.user_context = IF step.type \in {"user_model_revision", "user_model_query"}
                                    THEN get_user_model(st, BoundUser(m, step))
                                    ELSE NoneVal,
                   !.calls = Append(@, <<m.ci, m.si, step.name>>)]

(* steps.py:201 and 266-267 with user_model.py:63-66 / 82-85: the template is
   formatted, a revision or query step reads the stored user model, and the
   LLM call (for a plain tool step: the registered callback) is issued; the
   coroutine suspends on it *)
StepCall(m, step, st) ==
    IF MissingKey(step, ChainInputs(m)) THEN Raises(m, "KeyError")
    ELSE [m EXCEPT !.awaiting = TRUE,
                   !.prompt = Format(step, ChainInputs(m)),
                   !.user_context = IF step.type \in {"user_model_revision", "user_model_query"}
                                    THEN get_user_model(st, BoundUser(m, step))
                                    ELSE NoneVal,
                   !.calls = Append(@, <<m.ci, m.si, step.name>>)]

(* manager.py:107-108 with chain.py:37-46: runs the handler from its current
   position to its next suspension, its return or its exception.  si = 0 is
   the entry of chain ci. *)
RECURSIVE execute_chains(_, _)
execute_chains(m, st) ==
    IF m.ci > Len(Chains) THEN [m EXCEPT !.status = "done"]
    ELSE LET chain == Chains[m.ci] IN
         IF m.si = 0 THEN
             IF Gated(chain, ChainInputs(m))
             THEN execute_chains(ChainReturns(m, chain, chain.default_output), st)
             ELSE IF chain.steps = <<>> THEN Raises(m, "UnboundLocalError")
             ELSE execute_chains([m EXCEPT !.si = 1], st)
         ELSE IF m.si > Len(chain.steps)
             THEN execute_chains(ChainReturns(m, chain, m.output), st)
         ELSE StepCall(m, chain.steps[m.si], st)

(* manager.py:76-93: on_user_message builds the inputs and runs the chains *)
on_user_message(m, messages, st) ==
    execute_chains([m EXCEPT !.status = "running", !.event = "on_user_message", !.err = "none",
                             !.conversation_history = messages,
                             !.ci = 1, !.si = 0, !.awaiting = FALSE,
                             !.inputs = SeedInputs(messages),
                             !.output = NoneVal, !.prompt = NoneVal, !.user_context = NoneVal,
                             !.results = <<>>, !.calls = <<>>, !.gets = <<>>], st)

(* manager.py:132-133 *)
on_ai_message(m, messages) ==
    [m EXCEPT !.status = "done", !.event = "on_ai_message", !.err = "none",
              !.conversation_history = messages, !.gets = <<>>]

StepOutput_RevisedText(m, step, v) == v

(* the value the suspended step returns once the LLM answered `v`:
   steps.py:202 (inference), 307-310 (revision returns the insight),
   356-359 (query returns the answer) *)
StepOutput(m, step, v) == IF step.type = "user_model_revision" THEN m.prompt ELSE v

StoreAfter_Never(m, step, v, st) == st

StoreAfter_QueryWrites(m, step, v, st) ==
    IF step.type \in {"user_model_revision", "user_model_query"}
    THEN set_user_model(st, BoundUser(m, step), v) ELSE st

(* user_model.py:70: only revise writes the stored user model *)
StoreAfter(m, step, v, st) ==
    IF step.type = "user_model_revision" THEN set_user_model(st, BoundUser(m, step), v) ELSE st

StepReturns_NoWrite(m, step, out) ==
    [m EXCEPT !.awaiting = FALSE, !.output = out, !.si = @ + 1, !.gets = <<>>]

StepReturns_Repeats(m, step, out) ==
    [m EXCEPT !.awaiting = FALSE, !.output = out,
              !.inputs = [k \in DOMAIN @ \cup {step.name} |-> IF k = step.name THEN out ELSE @[k]],
              !.gets = <<>>]

(* chain.py:42-43: the step's output is bound to `output` and written into the
   dict under the step's name; the loop moves to the next step *)
StepReturns(m, step, out) ==
    [m EXCEPT !.awaiting = FALSE, !.output = out,
              !.inputs = [k \in DOMAIN @ \cup {step.name} |-> IF k = step.name THEN out ELSE @[k]],
              !.si = @ + 1, !.gets = <<>>]

get_agent_context_returns_default(m) ==
    [ret |-> m.default_agent_context,
     m |-> [m EXCEPT !.agent_context = m.default_agent_context,
                     !.gets = Append(@, m.default_agent_context)]]

get_agent_context_keeps(m) ==
    LET agent_context == IF m.agent_context # NoneVal THEN m.agent_context
                         ELSE m.default_agent_context
    IN  [ret |-> agent_context, m |-> [m EXCEPT !.gets = Append(@, agent_context)]]

(* manager.py:135-144 *)
get_agent_context(m) ==
    LET agent_context == IF m.agent_context # NoneVal THEN m.agent_context
                         ELSE m.default_agent_context
    IN  [ret |-> agent_context,
         m |-> [m EXCEPT !.agent_context = m.default_agent_context,
                         !.gets = Append(@, agent_context)]]

-----------------------------------------------------------------------------
(* State shared by the specifications *)

Call(op, user, run, caller, ret, err) ==
    [op |-> op, user |-> user, run |-> run, caller |-> caller, ret |-> ret, err |-> err]

NoCall == Call("none", "", 0, "", NoneVal, "none")

Idle == [pc |-> "idle", user |-> "", run |-> 0]

Live_IncludesDone(m) == m.status \in {"pending", "running", "done"}

(* a task that was created and has not ended: awaiting it suspends *)
Live(m) == m.status \in {"pending", "running"}

(* the suspended LLM call of run r returns v: the step returns, and the
   handler runs on to its next suspension or its end *)
LlmReturns(r, v) ==
    /\ mgr[r].status = "running" /\ mgr[r].awaiting
    /\ LET m == mgr[r]
           step == Chains[m.ci].steps[m.si]
           st == StoreAfter(m, step, v, store)
       IN  /\ store' = st
           /\ mgr' = [mgr EXCEPT ![r] = execute_chains(StepReturns(m, step, StepOutput(m, step, v)), st)]
    /\ last' = Call("llm_returns", mgr[r].user, r, "", v, "none")
    /\ UNCHANGED <<step_registry, tools, built, cfg, nruns, sessions, registered, processing_metacognitons, callers>>

(* the suspended LLM call of run r fails: nothing catches the error *)
LlmRaises(r) ==
    /\ mgr[r].status = "running" /\ mgr[r].awaiting
    /\ mgr' = [mgr EXCEPT ![r] = [Raises(mgr[r], "ProviderError") EXCEPT !.gets = <<>>]]
    /\ last' = Call("llm_raises", mgr[r].user, r, "", NoneVal, "ProviderError")
    /\ UNCHANGED <<step_registry, tools, built, cfg, nruns, store, sessions, registered, processing_metacognitons, callers>>

-----------------------------------------------------------------------------
(* Spec: one MetacognitionManager driven directly by a sequential caller, as
   in `await manager.on_user_message(history)` followed by
   `manager.get_agent_context()`. *)

RECURSIVE Conversation(_)
Conversation(n) ==
    IF n = 0 THEN <<>>
    ELSE Append(Conversation(n - 1),
                IF n % 2 = 1 THEN Message(TRUE, Str("hi")) ELSE Message(FALSE, Str("yo")))

Histories == {Conversation(1), Conversation(3)}

DefaultAgentContexts == {NoneVal, Str("dac")}

Init ==
    /\ cfg \in Configs
    /\ \E d \in DefaultAgentContexts :
          mgr = [r \in Runs |-> IF r = 1 THEN NewManager("u1", d) ELSE Unused]
    /\ nruns = 1
    /\ store = [u \in Users |-> NoneVal]
    /\ sessions = [u \in Users |-> <<>>]
    /\ registered = FALSE
    /\ processing_metacognitons = [u \in Users |-> 0]
    /\ callers = [c \in Callers |-> Idle]
    /\ step_registry = DefaultStepRegistry
    /\ tools = ToolsAfterLoad(NoTools, cfg, "u1")
    /\ built = NotBuilt
    /\ last = NoCall

OnUserMessage(h) ==
    /\ ~Live(mgr[1])
    /\ mgr' = [mgr EXCEPT ![1] = on_user_message(mgr[1], h, store)]
    /\ last' = Call("on_user_message", "u1", 1, "", NoneVal, "none")
    /\ UNCHANGED <<step_registry, tools, built, cfg, nruns, store, sessions, registered, processing_metacognitons, callers>>

GetAgentContext ==
    /\ ~Live(mgr[1])
    /\ Len(mgr[1].gets) < MaxGets
    /\ LET g == get_agent_context(mgr[1])
       IN  /\ mgr' = [mgr EXCEPT ![1] = g.m]
           /\ last' = Call("get_agent_context", "u1", 1, "", g.ret, "none")
    /\ UNCHANGED <<step_registry, tools, built, cfg, nruns, store, sessions, registered, processing_metacognitons, callers>>

Next ==
    \/ \E h \in Histories : OnUserMessage(h)
    \/ \E v \in LlmOutputs : LlmReturns(1, v)
    \/ LlmRaises(1)
    \/ GetAgentContext

Spec == Init /\ [][Next]_vars

-----------------------------------------------------------------------------
(* ClientSpec: the Client of core/client.py with its run tracker, the tasks
   it spawns and the coroutines calling get_context. *)

ClientConfigs == {c \in Configs : Len(c) = 1 /\ c[1].output = "AgentContext" /\ Len(c[1].steps) = 1}

ClientInit ==
    /\ cfg \in ClientConfigs
    /\ mgr = [r \in Runs |-> Unused]
    /\ nruns = 0
    /\ store = [u \in Users |-> NoneVal]
    /\ sessions = [u \in Users |-> <<>>]
    /\ registered = FALSE
    /\ processing_metacognitons = [u \in Users |-> 0]
    /\ callers = [c \in Callers |-> Idle]
    /\ step_registry = DefaultStepRegistry
    /\ tools = NoTools
    /\ built = NotBuilt
    /\ last = NoCall

(* client.py:179-191 *)
register_metacognitive_architecture ==
    /\ ~registered
    /\ registered' = TRUE
    /\ last' = Call("register_metacognitive_architecture", "", 0, "", NoneVal, "none")
    /\ UNCHANGED <<step_registry, tools, built, cfg, mgr, nruns, store, sessions, processing_metacognitons, callers>>

(* client.py:154-165 and 167-172: the manager built for the message and the
   coroutine handed to asyncio.create_task, which has not started yet *)
NewTask(user, is_user, messages) ==
    [NewManager(user, NoneVal) EXCEPT
        !.status = "pending",
        !.event = IF is_user THEN "on_user_message" ELSE "on_ai_message",
        !.conversation_history = messages]

Track_KeepsTracked(tracker, user, r) ==
    IF tracker[user] # 0 THEN tracker ELSE [tracker EXCEPT ![user] = r]

(* client.py:175: the tracker entry of the user is set to the new pair *)
Track(tracker, user, r) == [tracker EXCEPT ![user] = r]

(* the number of messages the API holds, over all sessions *)
RECURSIVE RecordedIn(_, _)
RecordedIn(ss, us) ==
    IF us = {} THEN 0
    ELSE LET u == CHOOSE x \in us : TRUE IN Len(ss[u]) + RecordedIn(ss, us \ {u})

Recorded(ss) == RecordedIn(ss, Users)

(* client.py:129-177.  `ok` is response.ok of the POST; the API records the
   message exactly when the POST succeeded.  The attribute
   metacognitive_architecture_config exists only after registration. *)
create_message_for_session(user, is_user, content, ok) ==
    /\ Recorded(sessions) < MaxMsgs
    /\ LET messages == IF ok THEN Append(sessions[user], Message(is_user, content))
                       ELSE sessions[user]
       IN  /\ sessions' = [sessions EXCEPT ![user] = messages]
           /\ IF ~registered
              THEN /\ last' = Call("create_message_for_session", user, 0, "", NoneVal, "AttributeError")
                   /\ UNCHANGED <<mgr, nruns, processing_metacognitons, tools>>
              ELSE IF ok
              THEN /\ nruns < MaxRuns
                   /\ nruns' = nruns + 1
                   /\ mgr' = [mgr EXCEPT ![nruns + 1] = Bind(NewTask(user, is_user, messages),
                                                            ToolsAfterLoad(tools, cfg, user))]
                   /\ tools' = ToolsAfterLoad(tools, cfg, user)
                   /\ processing_metacognitons' = Track(processing_metacognitons, user, nruns + 1)
                   /\ last' = Call("create_message_for_session", user, nruns + 1, "", NoneVal, "none")
              ELSE /\ last' = Call("create_message_for_session", user, 0, "", NoneVal, "none")
                   /\ UNCHANGED <<mgr, nruns, processing_metacognitons, tools>>
    /\ UNCHANGED <<cfg, store, registered, callers, step_registry, built>>

(* the event loop starts a created task: the handler runs to its first
   suspension or to its end *)
TaskStart(r) ==
    /\ mgr[r].status = "pending"
    /\ mgr' = [mgr EXCEPT ![r] =
                 IF mgr[r].event = "on_user_message"
                 THEN on_user_message(mgr[r], mgr[r].conversation_history, store)
                 ELSE on_ai_message(mgr[r], mgr[r].conversation_history)]
    /\ last' = Call("task_start", mgr[r].user, r, "", NoneVal, "none")
    /\ UNCHANGED <<step_registry, tools, built, cfg, nruns, store, sessions, registered, processing_metacognitons, callers>>

Untrack_Keeps(tracker, user) == tracker

(* client.py:201: del self.processing_metacognitons[user_id] *)
Untrack(tracker, user) == [tracker EXCEPT ![user] = 0]

TrackedRun_AnyUser(tracker, user) ==
    IF tracker[user] # 0 \/ \A u \in Users : tracker[u] = 0 THEN tracker[user]
    ELSE tracker[CHOOSE u \in Users : tracker[u] # 0]

(* client.py:194 and 197: the run tracked for the user, 0 when the user is
   not a key of the dict *)
TrackedRun(tracker, user) == tracker[user]

TaskException_Swallowed(m) == "none"

(* client.py:198: awaiting a task that ended with an exception raises it *)
TaskException(m) == IF m.status = "failed" THEN m.err ELSE "none"

(* client.py:197-203: get_context from `await task` on, once the task has
   ended *)
get_context_after_await(c, user, r) ==
    IF TaskException(mgr[r]) # "none"
    THEN /\ last' = Call("get_context", user, r, c, NoneVal, TaskException(mgr[r]))
         /\ UNCHANGED <<mgr, processing_metacognitons>>
    ELSE LET g == get_agent_context(mgr[r])
         IN  /\ mgr' = [mgr EXCEPT ![r] = g.m]
             /\ IF processing_metacognitons[user] = 0
                THEN /\ last' = Call("get_context", user, r, c, NoneVal, "KeyError")
                     /\ UNCHANGED processing_metacognitons
                ELSE /\ processing_metacognitons' = Untrack(processing_metacognitons, user)
                     /\ last' = Call("get_context", user, r, c, g.ret, "none")

(* client.py:193-203: a call of get_context, up to its return, its exception
   or its suspension on a task that has not ended *)
get_context(c, user) ==
    /\ callers[c].pc = "idle"
    /\ IF TrackedRun(processing_metacognitons, user) = 0
       THEN /\ last' = Call("get_context", user, 0, c, NoneVal, "none")
            /\ UNCHANGED <<mgr, processing_metacognitons, callers>>
       ELSE LET r == TrackedRun(processing_metacognitons, user)
            IN  IF Live(mgr[r])
                THEN /\ callers' = [callers EXCEPT ![c] = [pc |-> "awaiting", user |-> user, run |-> r]]
                     /\ last' = Call("get_context_awaits", user, r, c, NoneVal, "none")
                     /\ UNCHANGED <<mgr, processing_metacognitons>>
                ELSE /\ get_context_after_await(c, user, r)
                     /\ UNCHANGED callers
    /\ UNCHANGED <<step_registry, tools, built, cfg, nruns, store, sessions, registered>>

(* the awaited task has ended and the event loop resumes the caller *)
get_context_resumes(c) ==
    /\ callers[c].pc = "awaiting"
    /\ ~Live(mgr[callers[c].run])
    /\ get_context_after_await(c, callers[c].user, callers[c].run)
    /\ callers' = [callers EXCEPT ![c] = Idle]
    /\ UNCHANGED <<step_registry, tools, built, cfg, nruns, store, sessions, registered>>

ClientNext ==
    \/ register_metacognitive_architecture
    \/ \E u \in Users, is_user \in BOOLEAN, ok \in BOOLEAN :
          create_message_for_session(u, is_user, Str("hi"), ok)
    \/ \E r \in Runs : TaskStart(r)
    \/ \E r \in Runs, v \in LlmOutputs : LlmReturns(r, v)
    \/ \E r \in Runs : LlmRaises(r)
    \/ \E c \in Callers, u \in Users : get_context(c, u)
    \/ \E c \in Callers : get_context_resumes(c)

ClientSpec == ClientInit /\ [][ClientNext]_vars

-----------------------------------------------------------------------------
(* StepsSpec: one MetacognitionManager, as in Spec, loaded from a document
   with a single chain whose steps reference each other's outputs, reference
   a key nothing writes, or are absent. *)

StepsStepSeqs ==
    { <<InferenceStep("thought", <<"user_message">>), InferenceStep("response", <<"thought">>)>>,
      <<InferenceStep("thought", <<"user_message">>), ReviseUserModelStep("insight", <<"thought">>),
        QueryUserModelStep("summary", <<"insight", "thought">>)>>,
      <<InferenceStep("thought", <<"user_message">>), InferenceStep("response", <<"missing">>)>>,
      <<InferenceStep("thought", <<"user_message">>), QueryUserModelStep("summary", <<"thought", "missing">>)>>,
      <<>> }

StepsConfigs ==
    { <<MetacognitionChain(o, t, EmptyStr, s)>> : o \in Output, t \in MinTurnsChoices, s \in StepsStepSeqs }

StepsInit ==
    /\ cfg \in StepsConfigs
    /\ \E d \in DefaultAgentContexts :
          mgr = [r \in Runs |-> IF r = 1 THEN NewManager("u1", d) ELSE Unused]
    /\ nruns = 1
    /\ store = [u \in Users |-> NoneVal]
    /\ sessions = [u \in Users |-> <<>>]
    /\ registered = FALSE
    /\ processing_metacognitons = [u \in Users |-> 0]
    /\ callers = [c \in Callers |-> Idle]
    /\ step_registry = DefaultStepRegistry
    /\ tools = ToolsAfterLoad(NoTools, cfg, "u1")
    /\ built = NotBuilt
    /\ last = NoCall

StepsSpec == StepsInit /\ [][Next]_vars

-----------------------------------------------------------------------------
(* LoadSpec: an application that registers step classes and tools, builds
   single steps with Step.from_dict and constructs managers from documents. *)

Template == <<"user_message">>

StepDicts ==
    { [type |-> "inference", prompt |-> Template],
      [type |-> "inference"],
      [prompt |-> Template],
      [type |-> "tool", prompt |-> Template, tool |-> "search"],
      [type |-> "tool", prompt |-> Template],
      [type |-> "user_model_revision", insight |-> Template],
      [type |-> "user_model_revision", prompt |-> Template],
      [type |-> "user_model_query", query |-> Template],
      [type |-> "custom", template |-> Template],
      [type |-> "custom"],
      [type |-> "bogus", template |-> Template] }

NamedStep(name, step_dict) == [name |-> name, dict |-> step_dict]

ValidSteps == <<NamedStep("thought", [type |-> "inference", prompt |-> Template])>>

RawStepSeqs ==
    { <<NamedStep("insight", [type |-> "user_model_revision", insight |-> Template]),
        NamedStep("summary", [type |-> "user_model_query", query |-> <<"insight">>])>>,
      <<NamedStep("insight", [type |-> "user_model_revision", insight |-> Template]),
        NamedStep("oops", [type |-> "bogus", template |-> Template])>>,
      <<NamedStep("thought", [type |-> "inference"])>>,
      <<NamedStep("thought", [prompt |-> Template])>>,
      <<NamedStep("lookup", [type |-> "tool", prompt |-> Template, tool |-> "search"])>>,
      <<NamedStep("plan", [type |-> "custom", template |-> Template])>> }

RawChain(event, output, steps) == [event |-> event, output |-> output, steps |-> steps]

ChainDicts ==
    { RawChain(e, o, ValidSteps) : e \in {"on_user_message", "on_ai_message"},
                                   o \in {"void", "Agent_Context", "context"} }
    \cup { RawChain("on_user_message", "Agent_Context", steps) : steps \in RawStepSeqs }
    \cup { [event |-> "on_user_message", output |-> "void", steps |-> ValidSteps,
            min_completed_turns |-> 1, default_output |-> Str("later")] }

ValidChain == RawChain("on_user_message", "void", ValidSteps)

RECURSIVE ValidChains(_)
ValidChains(n) == IF n = 0 THEN <<>> ELSE Append(ValidChains(n - 1), ValidChain)

(* documents of up to MaxChains chains: one chain of ChainDicts after, or
   before, a number of valid chains *)
Documents ==
    { ValidChains(n) \o <<c>> : n \in 0..(MaxChains - 1), c \in ChainDicts }
    \cup { <<c>> \o ValidChains(n) : n \in 0..(MaxChains - 1), c \in ChainDicts }

LoadInit ==
    /\ cfg = <<>>
    /\ mgr = [r \in Runs |-> Unused]
    /\ nruns = 0
    /\ store = [u \in Users |-> NoneVal]
    /\ sessions = [u \in Users |-> <<>>]
    /\ registered = FALSE
    /\ processing_metacognitons = [u \in Users |-> 0]
    /\ callers = [c \in Callers |-> Idle]
    /\ step_registry = DefaultStepRegistry
    /\ tools = NoTools
    /\ built = NotBuilt
    /\ last = NoCall

(* steps.py:42-48 *)
register_step(step_class) ==
    /\ step_registry' = step_registry \cup {step_class}
    /\ last' = Call("register_step", "", 0, "", Str(step_class), "none")
    /\ UNCHANGED <<cfg, mgr, nruns, store, sessions, registered, processing_metacognitons, callers,
                   tools, built>>

(* steps.py:214-220, called by the application *)
RegisterTool(name) ==
    /\ tools' = register_tool(tools, name, "caller")
    /\ last' = Call("register_tool", "", 0, "", Str(name), "none")
    /\ UNCHANGED <<cfg, mgr, nruns, store, sessions, registered, processing_metacognitons, callers,
                   step_registry, built>>

(* a call of Step.from_dict(name, step_dict, llm, user_model, tools) *)
StepFromDict(name, step_dict, user) ==
    /\ LET result == Step_from_dict(name, step_dict, user, step_registry, tools)
       IN  /\ built' = [NotBuilt EXCEPT !.step_dict = <<step_dict>>, !.step = result.step]
           /\ tools' = result.tools
           /\ last' = Call("Step.from_dict", user, 0, "", Str(name), result.err)
    /\ UNCHANGED <<cfg, mgr, nruns, store, sessions, registered, processing_metacognitons, callers,
                   step_registry>>

(* a call of MetacognitionManager(metacognition_dict, user_model, llm) *)
NewMetacognitionManager(chain_dicts, user) ==
    /\ LET result == LoadChains(chain_dicts, user, step_registry, tools, <<>>)
       IN  /\ built' = [NotBuilt EXCEPT !.chain_dicts = chain_dicts, !.manager = result.manager]
           /\ tools' = result.tools
           /\ last' = Call("MetacognitionManager", user, 0, "", NoneVal, result.err)
    /\ UNCHANGED <<cfg, mgr, nruns, store, sessions, registered, processing_metacognitons, callers,
                   step_registry>>

LoadNext ==
    \/ \E step_class \in CallerStepClasses : register_step(step_class)
    \/ RegisterTool("search")
    \/ \E step_dict \in StepDicts, user \in Users : StepFromDict("s", step_dict, user)
    \/ \E chain_dicts \in Documents, user \in Users : NewMetacognitionManager(chain_dicts, user)

LoadSpec == LoadInit /\ [][LoadNext]_vars

-----------------------------------------------------------------------------
(* AdapterSpec: the two storage adapters of user_model/adapters, each called
   directly.  `store` is what the pickle files hold; the in-memory adapter's
   backing dict is the class attribute user_models. *)

(* in_memory.py:12: the class attribute; no method of the class assigns to it *)
user_models == [u \in Users |-> NoneVal]

Pickle == "PickleUserModelStorageAdapter"
InMemory == "InMemoryUserModelStorageAdapter"
AdapterKinds == {Pickle, InMemory}

Texts == LlmOutputs \cup {default_user_model}

GetOp(kind) == IF kind = Pickle THEN "pickle.get_user_model" ELSE "in_memory.get_user_model"
SetOp(kind) == IF kind = Pickle THEN "pickle.set_user_model" ELSE "in_memory.set_user_model"

(* in_memory.py:27-34: the method reads self._user_models, which neither the
   class nor __init__ defines *)
InMemory_get_user_model(user) == [ret |-> NoneVal, err |-> "AttributeError"]

(* in_memory.py:36-43: the same attribute *)
InMemory_set_user_model(user, text) == [err |-> "AttributeError"]

AdapterInit ==
    /\ cfg = <<>>
    /\ mgr = [r \in Runs |-> Unused]
    /\ nruns = 0
    /\ store = [u \in Users |-> NoneVal]
    /\ sessions = [u \in Users |-> <<>>]
    /\ registered = FALSE
    /\ processing_metacognitons = [u \in Users |-> 0]
    /\ callers = [c \in Callers |-> Idle]
    /\ step_registry = DefaultStepRegistry
    /\ tools = NoTools
    /\ built = NotBuilt
    /\ last = NoCall

(* await adapter.get_user_model() on an adapter constructed for `user` *)
AdapterGet(kind, user) ==
    /\ last' = IF kind = Pickle
               THEN Call(GetOp(kind), user, 0, "", get_user_model(store, user), "none")
               ELSE Call(GetOp(kind), user, 0, "", InMemory_get_user_model(user).ret,
                         InMemory_get_user_model(user).err)
    /\ UNCHANGED <<cfg, mgr, nruns, store, sessions, registered, processing_metacognitons, callers,
                   step_registry, tools, built>>

(* await adapter.set_user_model(text) on an adapter constructed for `user`;
   the call's argument is recorded as last.ret *)
AdapterSet(kind, user, text) ==
    /\ store' = IF kind = Pickle THEN set_user_model(store, user, text) ELSE store
    /\ last' = Call(SetOp(kind), user, 0, "", text,
                    IF kind = Pickle THEN "none" ELSE InMemory_set_user_model(user, text).err)
    /\ UNCHANGED <<cfg, mgr, nruns, sessions, registered, processing_metacognitons, callers,
                   step_registry, tools, built>>

AdapterNext ==
    \/ \E kind \in AdapterKinds, user \in Users : AdapterGet(kind, user)
    \/ \E kind \in AdapterKinds, user \in Users, text \in Texts : AdapterSet(kind, user, text)

AdapterSpec == AdapterInit /\ [][AdapterNext]_vars

-----------------------------------------------------------------------------
(* StoreSpec: the Client with documents whose steps revise and query the
   stored user model, call an application tool and run inference, and one
   coroutine calling get_context.  The application registered ToolStep and
   its tool before loading. *)

StoreConfigs ==
    { <<MetacognitionChain("Void", 0, EmptyStr,
            <<ReviseUserModelStep("insight", <<"user_message">>)>>),
        MetacognitionChain("AgentContext", 0, EmptyStr,
            <<QueryUserModelStep("summary", <<"user_message">>)>>)>>,
      <<MetacognitionChain("AgentContext", 1, EmptyStr,
            <<ReviseUserModelStep("insight", <<"user_message">>),
              QueryUserModelStep("summary", <<"insight">>)>>)>>,
      <<MetacognitionChain("AgentContext", 0, EmptyStr,
            <<ToolStep("lookup", <<"user_message">>, "search"),
              InferenceStep("thought", <<"lookup">>)>>)>> }

StoreInit ==
    /\ cfg \in StoreConfigs
    /\ mgr = [r \in Runs |-> Unused]
    /\ nruns = 0
    /\ store = [u \in Users |-> NoneVal]
    /\ sessions = [u \in Users |-> <<>>]
    /\ registered = FALSE
    /\ processing_metacognitons = [u \in Users |-> 0]
    /\ callers = [c \in Callers |-> Idle]
    /\ step_registry = DefaultStepRegistry \cup {"tool"}
    /\ tools = register_tool(NoTools, "search", "caller")
    /\ built = NotBuilt
    /\ last = NoCall

StoreNext ==
    \/ register_metacognitive_architecture
    \/ \E u \in Users, is_user \in BOOLEAN : create_message_for_session(u, is_user, Str("hi"), TRUE)
    \/ \E r \in Runs : TaskStart(r)
    \/ \E r \in Runs, v \in LlmOutputs : LlmReturns(r, v)
    \/ \E r \in Runs : LlmRaises(r)
    \/ \E u \in Users : get_context("g1", u)
    \/ get_context_resumes("g1")

StoreSpec == StoreInit /\ [][StoreNext]_vars

-----------------------------------------------------------------------------
(* TermSpec: the Client with an architecture registered, one user sending
   messages and one coroutine calling get_context, under the scheduling of
   the asyncio event loop: a created task is started, a coroutine whose
   awaited task has ended is resumed, and (the assumption of the property)
   an LLM call that was issued returns or raises.  The fairness asked for is
   the weakest that says so: while some such step is possible, one of them is
   eventually taken. *)

TermConfig ==
    <<MetacognitionChain("Void", 0, EmptyStr, <<ReviseUserModelStep("insight", <<"user_message">>)>>),
      MetacognitionChain("AgentContext", 0, EmptyStr, <<QueryUserModelStep("summary", <<"insight">>)>>)>>

TermInit ==
    /\ cfg = TermConfig
    /\ mgr = [r \in Runs |-> Unused]
    /\ nruns = 0
    /\ store = [u \in Users |-> NoneVal]
    /\ sessions = [u \in Users |-> <<>>]
    /\ registered = TRUE
    /\ processing_metacognitons = [u \in Users |-> 0]
    /\ callers = [c \in Callers |-> Idle]
    /\ step_registry = DefaultStepRegistry
    /\ tools = NoTools
    /\ built = NotBuilt
    /\ last = NoCall

TermNext ==
    \/ \E is_user \in BOOLEAN : create_message_for_session("u1", is_user, Str("hi"), TRUE)
    \/ \E r \in Runs : TaskStart(r)
    \/ \E r \in Runs : LlmReturns(r, Str("a"))
    \/ \E r \in Runs : LlmRaises(r)
    \/ get_context("g1", "u1")
    \/ get_context_resumes("g1")

(* a step of the event loop or of the LLM adapter, as opposed to a call made
   by the application *)
EventLoopStep ==
    \/ \E r \in Runs : TaskStart(r)
    \/ \E r \in Runs : LlmReturns(r, Str("a"))
    \/ \E r \in Runs : LlmRaises(r)
    \/ get_context_resumes("g1")

TermSpec == TermInit /\ [][TermNext]_vars /\ WF_vars(EventLoopStep)

-----------------------------------------------------------------------------
(* Properties of the chain and the manager, checked under Spec *)

TheManager == mgr[1]

HasRun(m) == m.event = "on_user_message"

TurnsCompleted(m) == (Len(m.conversation_history) - 1) \div 2

ChainWasGated(m, k) == TurnsCompleted(m) < cfg[k].min_completed_turns

StepNames(chain) == {chain.steps[i].name : i \in 1..Len(chain.steps)}

CalledIn(m, k) == {i \in 1..Len(m.calls) : m.calls[i][1] = k}

(* C1: a chain called with turns_completed < min_completed_turns returns
   exactly its default_output and executes none of its steps: no LLM call or
   tool callback is issued for it, the inputs hold no entry that only its
   steps could have written, and the stored user model does not change while
   the handler is at that chain. *)
C1_GatedChainNoSteps ==
    HasRun(TheManager) =>
        \A k \in 1..Len(cfg) :
            ChainWasGated(TheManager, k) =>
                /\ k <= Len(TheManager.results) => TheManager.results[k] = cfg[k].default_output
                /\ CalledIn(TheManager, k) = {}
                /\ ~(TheManager.awaiting /\ TheManager.ci = k)
                /\ DOMAIN TheManager.inputs \subseteq
                       SeedKeys \cup UNION {StepNames(cfg[j]) :
                                              j \in {i \in 1..Len(cfg) : ~ChainWasGated(TheManager, i)}}

C1_NoWriteWhileGated ==
    [][ (store' # store) => ~ChainWasGated(TheManager, TheManager.ci) ]_vars

C1_Gating == []C1_GatedChainNoSteps /\ C1_NoWriteWhileGated

C1_Witness ==
    /\ HasRun(TheManager) /\ TheManager.status = "done"
    /\ \E k \in 1..Len(cfg) :
          /\ ChainWasGated(TheManager, k)
          /\ cfg[k].steps[1].type = "user_model_revision"
          /\ TheManager.results[k] = cfg[k].default_output
    /\ \E j \in 1..Len(cfg) : ~ChainWasGated(TheManager, j) /\ CalledIn(TheManager, j) # {}

Ended(m) == HasRun(m) /\ ~Live(m)

(* the AgentContext chains that returned in the manager's current run *)
ReturnedAgentContext(m) == {k \in 1..Len(m.results) : cfg[k].output = "AgentContext"}

IsLastReturned(m, k) == k \in ReturnedAgentContext(m) /\ \A j \in ReturnedAgentContext(m) : j <= k

(* C2 as stated: after a run in which a non-gated AgentContext chain
   completed, the first get_agent_context() returns that chain's final step
   output, and a second consecutive get_agent_context() returns
   default_agent_context. *)
C2_Original ==
    Ended(TheManager) =>
        \A k \in ReturnedAgentContext(TheManager) :
            ~ChainWasGated(TheManager, k) =>
                /\ Len(TheManager.gets) >= 1 => TheManager.gets[1] = TheManager.results[k]
                /\ Len(TheManager.gets) >= 2 => TheManager.gets[2] = TheManager.default_agent_context

(* C2 amended: the same, for the non-gated AgentContext chain after which no
   later-declared AgentContext chain returned in that run (the last writer). *)
C2_ConsumeOnce ==
    Ended(TheManager) =>
        \A k \in ReturnedAgentContext(TheManager) :
            (IsLastReturned(TheManager, k) /\ ~ChainWasGated(TheManager, k)) =>
                /\ Len(TheManager.gets) >= 1 => TheManager.gets[1] = TheManager.results[k]
                /\ Len(TheManager.gets) >= 2 => TheManager.gets[2] = TheManager.default_agent_context

C2_Witness ==
    /\ Ended(TheManager) /\ TheManager.status = "done"
    /\ Len(TheManager.gets) = 2
    /\ \E k \in ReturnedAgentContext(TheManager) :
          /\ IsLastReturned(TheManager, k) /\ ~ChainWasGated(TheManager, k)
          /\ TheManager.gets[1] = TheManager.results[k]
          /\ TheManager.gets[1] # TheManager.default_agent_context
          /\ TheManager.default_agent_context # NoneVal

(* C6: when exactly two chains of the event have output AgentContext and
   both returned in the run, the first get_agent_context() after the run
   returns the result of the later-declared one, not the earlier one's. *)
C6_LastWriteWins ==
    Ended(TheManager) =>
        \A j, k \in ReturnedAgentContext(TheManager) :
            (j < k /\ {i \in 1..Len(cfg) : cfg[i].output = "AgentContext"} = {j, k}
                   /\ Len(TheManager.gets) >= 1) =>
                /\ TheManager.gets[1] = TheManager.results[k]
                /\ TheManager.results[j] # TheManager.results[k]
                      => TheManager.gets[1] # TheManager.results[j]

C6_Witness ==
    /\ TheManager.status = "done" /\ HasRun(TheManager)
    /\ Len(TheManager.gets) >= 1
    /\ \E j, k \in ReturnedAgentContext(TheManager) :
          /\ j < k
          /\ ~ChainWasGated(TheManager, j) /\ ~ChainWasGated(TheManager, k)
          /\ TheManager.results[j] # TheManager.results[k]
          /\ TheManager.gets[1] = TheManager.results[k]

(* the steps of chain k whose LLM call returned in the current run *)
ReturnedSteps(m, k) ==
    {i \in 1..Len(cfg[k].steps) :
        \/ k <= Len(m.results)
        \/ k = m.ci /\ i < m.si}

(* C7 as stated: the inputs are not shared across the chains of one event.
   While chain k runs, its inputs hold the four seed keys with their seed
   values and, besides them, only entries written by chain k's own steps. *)
C7_FreshInputsPerChain ==
    (HasRun(TheManager) /\ TheManager.status = "running") =>
        LET k == TheManager.ci
            seed == SeedInputs(TheManager.conversation_history)
        IN  /\ DOMAIN TheManager.inputs \subseteq
                    SeedKeys \cup {cfg[k].steps[i].name : i \in ReturnedSteps(TheManager, k)}
            /\ \A key \in SeedKeys : TheManager.inputs[key] = seed[key]

(* C9: when the LLM call of step i of a chain fails, the task ends with that
   error; the step writes no entry into the inputs, no further step of the
   chain and no later chain executes, and no chain result is produced. *)
C9_StepErrorAborts ==
    [][ last'.op = "llm_raises" =>
          /\ TheManager'.status = "failed" /\ TheManager'.err = "ProviderError"
          /\ TheManager'.inputs = TheManager.inputs
          /\ TheManager'.calls = TheManager.calls
          /\ TheManager'.results = TheManager.results
          /\ TheManager'.agent_context = TheManager.agent_context
          /\ Len(TheManager'.results) = TheManager.ci - 1
          /\ TheManager'.calls[Len(TheManager'.calls)] =
                <<TheManager.ci, TheManager.si, cfg[TheManager.ci].steps[TheManager.si].name>>
          /\ ~TheManager'.awaiting
          /\ store' = store ]_vars

C9_Witness ==
    /\ TheManager.status = "failed" /\ TheManager.err = "ProviderError"
    /\ TheManager.ci < Len(cfg)
    /\ TheManager.si < Len(cfg[TheManager.ci].steps)
    /\ ~ChainWasGated(TheManager, Len(cfg))

(* C10: the chains of the event execute in the order the configuration
   declares them, one at a time: the LLM calls of a run are issued in
   increasing (chain, step) order, each for the step the configuration
   declares at that position, every step of a non-gated chain has been called
   before a later chain returns or is called, and at most one call is
   pending. *)
CallBefore(a, b) == a[1] < b[1] \/ (a[1] = b[1] /\ a[2] < b[2])

C10_ChainsInDeclaredOrder ==
    HasRun(TheManager) =>
        LET calls == TheManager.calls IN
        /\ \A i \in 1..Len(calls) :
              /\ calls[i][1] \in 1..Len(cfg)
              /\ calls[i][2] \in 1..Len(cfg[calls[i][1]].steps)
              /\ calls[i][3] = cfg[calls[i][1]].steps[calls[i][2]].name
        /\ \A i, j \in 1..Len(calls) : i < j => CallBefore(calls[i], calls[j])
        /\ \A k \in 1..Len(cfg) :
              (k <= Len(TheManager.results) /\ ~ChainWasGated(TheManager, k)) =>
                  {calls[i][2] : i \in CalledIn(TheManager, k)} = 1..Len(cfg[k].steps)
        /\ \A i \in 1..Len(calls) : calls[i][1] <= Len(TheManager.results) + 1
        /\ TheManager.awaiting =>
              calls[Len(calls)] = <<TheManager.ci, TheManager.si,
                                    cfg[TheManager.ci].steps[TheManager.si].name>>

C10_Witness ==
    /\ HasRun(TheManager) /\ TheManager.status = "done"
    /\ Len(cfg) = 2
    /\ cfg[1].steps # cfg[2].steps
    /\ Len(TheManager.calls) = Len(cfg[1].steps) + Len(cfg[2].steps)

-----------------------------------------------------------------------------
(* Properties of the Client's run tracker, checked under ClientSpec *)

(* the step is a call of get_context, not the resumption of a suspended one *)
GetContextCalled ==
    /\ last'.op \in {"get_context", "get_context_awaits"}
    /\ callers[last'.caller].pc = "idle"

(* the step lets get_context return normally after awaiting a tracked task *)
GetContextReturned == last'.op = "get_context" /\ last'.run # 0 /\ last'.err = "none"

(* C3: get_context(u) on a tracked run whose task completed returns what the
   run's manager retained (for the first retrieval: the result of the last
   AgentContext chain that returned) and removes u's tracker entry; a
   get_context(u) called directly after it returns None. *)
C3_TrackerConsumeOnce ==
    /\ [][ GetContextReturned =>
             LET m == mgr[last'.run] IN
             /\ m.status = "done"
             /\ last'.ret = IF m.agent_context # NoneVal THEN m.agent_context
                            ELSE m.default_agent_context
             /\ \A k \in ReturnedAgentContext(m) :
                   (m.gets = <<>> /\ IsLastReturned(m, k)) => last'.ret = m.results[k]
             /\ processing_metacognitons'[last'.user] = 0 ]_vars
    /\ [][ (last.op = "get_context" /\ last.run # 0 /\ last.err = "none"
             /\ GetContextCalled /\ last'.user = last.user) =>
               (last'.op = "get_context" /\ last'.run = 0
                /\ last'.ret = NoneVal /\ last'.err = "none") ]_vars

C3_Witness ==
    /\ last.op = "get_context" /\ last.run = 0 /\ last.ret = NoneVal /\ last.err = "none"
    /\ processing_metacognitons[last.user] = 0
    /\ \E r \in Runs :
          /\ mgr[r].user = last.user /\ mgr[r].status = "done"
          /\ Len(mgr[r].gets) = 1 /\ mgr[r].gets[1] \in LlmOutputs
    /\ \A r \in Runs : mgr[r].user = last.user => ~Live(mgr[r])

(* C4 as stated: at any time at most one task started for a user is started
   and not yet completed. *)
C4_OneLiveRunPerUser ==
    \A u \in Users :
        Cardinality({r \in Runs : mgr[r].user = u /\ mgr[r].status = "running"}) <= 1

(* C5: get_context(u2) for a user with no tracked run returns None at once:
   it suspends on no task, whatever other users have in flight, and leaves
   the tracker, the managers and the other callers as they were. *)
C5_UntrackedReturnsNone ==
    [][ (GetContextCalled /\ processing_metacognitons[last'.user] = 0) =>
          /\ last'.op = "get_context" /\ last'.run = 0
          /\ last'.ret = NoneVal /\ last'.err = "none"
          /\ callers' = callers
          /\ processing_metacognitons' = processing_metacognitons
          /\ mgr' = mgr ]_vars

C5_Witness ==
    /\ last.op = "get_context" /\ last.run = 0 /\ last.ret = NoneVal
    /\ \A c \in Callers : callers[c].pc = "idle"
    /\ \E u \in Users \ {last.user} :
          /\ processing_metacognitons[u] # 0
          /\ mgr[processing_metacognitons[u]].status = "running"

(* C8: when the run that get_context(u) awaited ended with an error,
   get_context(u) raises that error and returns no value. *)
C8_FailedRunReraises ==
    (last.op = "get_context" /\ last.run # 0 /\ mgr[last.run].status = "failed") =>
        /\ last.err = mgr[last.run].err
        /\ last.err # "none"
        /\ last.ret = NoneVal

C8_Witness ==
    /\ last.op = "get_context" /\ last.run # 0
    /\ mgr[last.run].status = "failed"
    /\ last.err = "ProviderError"

-----------------------------------------------------------------------------
(* Properties of the steps of one chain, checked under StepsSpec *)

(* the value step A hands back to the chain when its LLM call returned v *)
OutputOf(m, A, v) == IF A.type = "user_model_revision" THEN m.prompt ELSE v

(* C11: when step A of a non-gated chain returns, the inputs hold A's output
   under A's name and every other entry is as it was; the step B declared
   next then executes with every {key} of its template substituted by the
   entry of that key, so a template that references {A} alone is B's tag
   followed by exactly A's output. *)
C11_StepInputPropagation ==
    [][ (last'.op = "llm_returns" /\ HasRun(TheManager)) =>
          LET k == TheManager.ci
              i == TheManager.si
              A == cfg[k].steps[i]
              out == OutputOf(TheManager, A, last'.ret)
          IN  /\ A.name \in DOMAIN TheManager'.inputs
              /\ TheManager'.inputs[A.name] = out
              /\ \A key \in DOMAIN TheManager.inputs \ {A.name} :
                    /\ key \in DOMAIN TheManager'.inputs
                    /\ TheManager'.inputs[key] = TheManager.inputs[key]
              /\ (i < Len(cfg[k].steps) /\ TheManager'.awaiting) =>
                    LET B == cfg[k].steps[i + 1]
                    IN  /\ TheManager'.ci = k /\ TheManager'.si = i + 1
                        /\ \A n \in 1..Len(B.refs) : B.refs[n] \in DOMAIN TheManager'.inputs
                        /\ B.refs = <<A.name>> => TheManager'.prompt = <<B.name>> \o out
                        /\ Len(B.refs) = 2 =>
                              TheManager'.prompt = <<B.name>> \o TheManager'.inputs[B.refs[1]]
                                                              \o TheManager'.inputs[B.refs[2]]
              /\ (i < Len(cfg[k].steps) /\ ~TheManager'.awaiting) =>
                    /\ TheManager'.status = "failed" /\ TheManager'.err = "KeyError"
                    /\ \E n \in 1..Len(cfg[k].steps[i + 1].refs) :
                          cfg[k].steps[i + 1].refs[n] \notin DOMAIN TheManager'.inputs ]_vars

C11_Witness ==
    /\ HasRun(TheManager) /\ TheManager.status = "running" /\ TheManager.awaiting
    /\ TheManager.si = 3
    /\ cfg[1].steps[3].refs = <<"insight", "thought">>
    /\ TheManager.inputs["thought"] = Str("b")
    /\ TheManager.inputs["insight"] = <<"insight", "b">>
    /\ TheManager.prompt = <<"summary", "insight", "b", "b">>

-----------------------------------------------------------------------------
(* Further properties of the Client's run tracker, checked under ClientSpec *)

(* the step is a create_message_for_session that recorded an agent-authored
   message for user u *)
AgentMessageRecorded(u) ==
    /\ last'.op = "create_message_for_session" /\ last'.user = u
    /\ Len(sessions'[u]) = Len(sessions[u]) + 1
    /\ sessions'[u][Len(sessions'[u])].role = "Assistant"

(* C12 as stated: recording an agent-authored message for a user with no
   tracked run starts no run: afterwards no run is tracked for the user and
   no task was created. *)
C12_AgentMessageStartsNoRun ==
    [][ \A u \in Users :
          (AgentMessageRecorded(u) /\ processing_metacognitons[u] = 0) =>
              /\ processing_metacognitons'[u] = 0
              /\ nruns' = nruns ]_vars

(* C13 as stated: a get_context(u) that returns after awaiting run r removes
   only r's entry: an entry of u that names another run, recorded while the
   call was suspended, is still tracked after the call returns. *)
C13_RemovesOnlyAwaitedEntry ==
    [][ (last'.op = "get_context" /\ last'.run # 0
         /\ processing_metacognitons[last'.user] # 0
         /\ processing_metacognitons[last'.user] # last'.run) =>
            processing_metacognitons'[last'.user] = processing_metacognitons[last'.user] ]_vars

(* some get_context call of a user other than u is suspended on a task that
   has not ended *)
OtherUserSuspended(u) ==
    \E c \in Callers :
        /\ callers[c].pc = "awaiting" /\ callers[c].user # u
        /\ Live(mgr[callers[c].run])

(* C14: while a get_context call is suspended on its user's unfinished task,
   the task of any other user can start and can take the return of its LLM
   call, and a get_context for another user whose tracked task has completed
   returns that run's context at once, without suspending. *)
C14_OtherTasksCanStep ==
    \A r \in Runs :
        (mgr[r].status # "unused" /\ OtherUserSuspended(mgr[r].user)) =>
            /\ mgr[r].status = "pending" => ENABLED TaskStart(r)
            /\ mgr[r].status = "running" => \A v \in LlmOutputs : ENABLED LlmReturns(r, v)

C14_OtherUserReturns ==
    [][ (GetContextCalled
         /\ OtherUserSuspended(last'.user)
         /\ processing_metacognitons[last'.user] # 0
         /\ mgr[processing_metacognitons[last'.user]].status = "done") =>
            LET m == mgr[processing_metacognitons[last'.user]] IN
            /\ last'.op = "get_context" /\ last'.err = "none"
            /\ last'.run = processing_metacognitons[last'.user]
            /\ last'.ret = IF m.agent_context # NoneVal THEN m.agent_context
                           ELSE m.default_agent_context
            /\ callers' = callers ]_vars

C14_AwaitDoesNotBlockOthers == []C14_OtherTasksCanStep /\ C14_OtherUserReturns

C14_Witness ==
    /\ last.op = "get_context" /\ last.err = "none" /\ last.ret \in LlmOutputs
    /\ mgr[last.run].status = "done"
    /\ \E c \in Callers :
          /\ callers[c].pc = "awaiting" /\ callers[c].user # last.user
          /\ callers[c].run < last.run
          /\ mgr[callers[c].run].status = "running"

-----------------------------------------------------------------------------
(* Properties of loading, checked under LoadSpec *)

(* the step is a call of Step.from_dict; StepArg is the mapping passed *)
StepFromDictCalled == last'.op = "Step.from_dict"

StepArg == built'.step_dict[1]

(* C15: Step.from_dict on a mapping without a type key, or with a type tag
   that is not registered, raises StepParsingException, constructs no step
   and registers no tool; once a custom class is registered, a mapping of its
   tag that carries its required field is constructed into a step of that
   class. *)
C15_UnknownTypeRejected ==
    [][ StepFromDictCalled =>
          /\ ("type" \notin DOMAIN StepArg \/ StepArg.type \notin step_registry) =>
                /\ last'.err = "StepParsingException"
                /\ built'.step = <<>>
                /\ tools' = tools
          /\ ("type" \in DOMAIN StepArg /\ StepArg.type = "custom" /\ "custom" \in step_registry
              /\ "template" \in DOMAIN StepArg) =>
                /\ last'.err = "none"
                /\ built'.step = <<[name |-> last'.ret[1], type |-> "custom", refs |-> StepArg.template]>> ]_vars

C15_Witness ==
    /\ last.op = "Step.from_dict" /\ last.err = "none"
    /\ "custom" \in step_registry
    /\ built.step # <<>> /\ built.step[1].type = "custom"

(* the mapping is a correctly shaped config of a built-in variant, a tool
   step naming a registered tool *)
WellShapedBuiltIn(step_dict, tl) ==
    /\ "type" \in DOMAIN step_dict
    /\ step_dict.type \in {"inference", "tool", "user_model_revision", "user_model_query"}
    /\ RequiredFields(step_dict.type) \subseteq DOMAIN step_dict
    /\ step_dict.type = "tool" => tl[step_dict.tool] # NoTool

(* C16 as stated: with no step class registered by the caller, a correctly
   shaped config of each of the four built-in types constructs a step. *)
C16_FourBuiltInsRecognized ==
    [][ (StepFromDictCalled /\ step_registry = DefaultStepRegistry
         /\ WellShapedBuiltIn(StepArg, tools)) =>
            /\ last'.err = "none"
            /\ built'.step # <<>>
            /\ built'.step[1].type = StepArg.type ]_vars

(* C17 as stated: a config of a registered type that lacks a required field
   of that type fails in Step.from_dict with StepParsingException and
   constructs no step. *)
C17_MissingFieldIsParsingError ==
    [][ (StepFromDictCalled /\ "type" \in DOMAIN StepArg /\ StepArg.type \in step_registry
         /\ ~(RequiredFields(StepArg.type) \subseteq DOMAIN StepArg)) =>
            /\ last'.err = "StepParsingException"
            /\ built'.step = <<>> ]_vars

(* a step of the document cannot be constructed under the registries *)
StepFails(step_dict, reg, tl) ==
    \/ "type" \notin DOMAIN step_dict
    \/ step_dict.type \notin reg
    \/ ~(RequiredFields(step_dict.type) \subseteq DOMAIN step_dict)
    \/ step_dict.type = "tool" /\ tl[step_dict.tool] = NoTool

InvalidChain(chain_dict, reg, tl) ==
    \/ chain_dict.event \notin {"on_user_message"}
    \/ chain_dict.output \notin {"void", "Agent_Context"}
    \/ \E i \in 1..Len(chain_dict.steps) : StepFails(chain_dict.steps[i].dict, reg, tl)

(* C18: constructing a manager from a document in which some chain has an
   unknown event tag, an unknown output tag or a step that cannot be
   constructed raises and produces no manager, wherever the chain stands in
   the document; a document of valid chains produces a manager holding all
   of them, in order. *)
C18_FailFastNoPartialLoad ==
    [][ last'.op = "MetacognitionManager" =>
          LET chain_dicts == built'.chain_dicts IN
          IF \E k \in 1..Len(chain_dicts) : InvalidChain(chain_dicts[k], step_registry, tools)
          THEN /\ last'.err # "none"
               /\ built'.manager = <<>>
          ELSE /\ last'.err = "none"
               /\ Len(built'.manager) = 1
               /\ Len(built'.manager[1].chains) = Len(chain_dicts)
               /\ \A k \in 1..Len(chain_dicts) :
                     /\ Len(built'.manager[1].chains[k].steps) = Len(chain_dicts[k].steps)
                     /\ built'.manager[1].chains[k].output =
                           (IF chain_dicts[k].output = "void" THEN "Void" ELSE "AgentContext") ]_vars

C18_Witness ==
    /\ last.op = "MetacognitionManager" /\ last.err = "StepParsingException"
    /\ built.manager = <<>>
    /\ Len(built.chain_dicts) = MaxChains
    /\ ~InvalidChain(built.chain_dicts[1], step_registry, tools)
    /\ InvalidChain(built.chain_dicts[MaxChains], step_registry, tools)

-----------------------------------------------------------------------------
(* Further properties of the manager, checked under Spec *)

(* no chain of the manager can have written agent_context: it never ran, or
   no chain of the document has output AgentContext *)
NeverWritten(m) == ~HasRun(m) \/ \A k \in 1..Len(cfg) : cfg[k].output # "AgentContext"

(* C19: get_agent_context() returns the retained value when it is not None
   and default_agent_context otherwise, and leaves the retained value equal
   to default_agent_context; on a manager whose retained value no chain can
   have written, every call returns default_agent_context. *)
C19_GetReturns ==
    [][ last'.op = "get_agent_context" =>
          /\ last'.ret = IF TheManager.agent_context # NoneVal THEN TheManager.agent_context
                         ELSE TheManager.default_agent_context
          /\ TheManager'.agent_context = TheManager.default_agent_context
          /\ TheManager'.default_agent_context = TheManager.default_agent_context ]_vars

C19_DefaultWhenNeverWritten ==
    NeverWritten(TheManager) =>
        /\ TheManager.agent_context \in {NoneVal, TheManager.default_agent_context}
        /\ \A i \in 1..Len(TheManager.gets) : TheManager.gets[i] = TheManager.default_agent_context

C19_GetAgentContext == []C19_DefaultWhenNeverWritten /\ C19_GetReturns

C19_Witness ==
    /\ NeverWritten(TheManager)
    /\ HasRun(TheManager) /\ TheManager.status = "done"
    /\ TheManager.default_agent_context = Str("dac")
    /\ TheManager.gets = <<Str("dac"), Str("dac")>>
    /\ last.op = "get_agent_context" /\ last.ret = Str("dac")

(* the chains whose call returned in the step *)
NewlyReturned ==
    IF last'.op = "on_user_message" THEN 1..Len(TheManager'.results)
    ELSE (Len(TheManager.results) + 1)..Len(TheManager'.results)

(* C20: a chain with output Void executes its steps like any other chain
   (each is called, a revision step writes the stored user model, its result
   is its last step's output), and its return leaves the retained
   agent_context as it was: over a stretch of the handler in which only Void
   chains returned the retained value does not change, and otherwise it is
   the result of the last AgentContext chain that returned in the stretch. *)
C20_VoidKeepsAgentContext ==
    [][ last'.op \in {"on_user_message", "llm_returns"} =>
          /\ (\A k \in NewlyReturned : cfg[k].output = "Void") =>
                TheManager'.agent_context = TheManager.agent_context
          /\ \A k \in NewlyReturned :
                (cfg[k].output = "AgentContext"
                 /\ \A j \in NewlyReturned : cfg[j].output = "AgentContext" => j <= k) =>
                    TheManager'.agent_context = TheManager'.results[k]
          /\ \A k \in NewlyReturned :
                (cfg[k].output = "Void" /\ ~ChainWasGated(TheManager', k)) =>
                    /\ {TheManager'.calls[i][2] : i \in CalledIn(TheManager', k)} = 1..Len(cfg[k].steps)
                    /\ last'.op = "llm_returns" /\ k = TheManager.ci
                    /\ TheManager'.results[k] =
                          OutputOf(TheManager, cfg[k].steps[Len(cfg[k].steps)], last'.ret)
                    /\ (\E i \in 1..Len(cfg[k].steps) : cfg[k].steps[i].type = "user_model_revision")
                          => store'["u1"] \in LlmOutputs ]_vars

C20_Witness ==
    /\ HasRun(TheManager) /\ TheManager.status = "done"
    /\ Len(cfg) = 2
    /\ cfg[1].output = "AgentContext" /\ cfg[2].output = "Void"
    /\ ~ChainWasGated(TheManager, 1) /\ ~ChainWasGated(TheManager, 2)
    /\ cfg[2].steps[1].type = "user_model_revision"
    /\ TheManager.agent_context = TheManager.results[1]
    /\ TheManager.results[1] # TheManager.results[2]
    /\ store["u1"] \in LlmOutputs

-----------------------------------------------------------------------------
(* Properties of the storage adapters, checked under AdapterSpec *)

(* what the adapter of the kind holds for each user *)
Backing(kind) == IF kind = Pickle THEN store ELSE user_models

(* C21 as stated: for both adapters, get_user_model for a user never written
   returns default_user_model and otherwise the text last set for the user,
   and set_user_model(t) for user u completes, makes u's text t and leaves
   every other user's text as it was. *)
C21_StorageAdapterContract ==
    [][ \A kind \in AdapterKinds, u \in Users :
          /\ (last'.op = GetOp(kind) /\ last'.user = u) =>
                /\ last'.err = "none"
                /\ last'.ret = IF Backing(kind)[u] = NoneVal THEN default_user_model
                               ELSE Backing(kind)[u]
          /\ (last'.op = SetOp(kind) /\ last'.user = u) =>
                /\ last'.err = "none"
                /\ Backing(kind)'[u] = last'.ret
                /\ \A w \in Users \ {u} : Backing(kind)'[w] = Backing(kind)[w] ]_vars

-----------------------------------------------------------------------------
(* Further properties of the steps of one chain, checked under StepsSpec *)

(* the steps of chain k that were called in the run and whose output is not
   in the inputs: called and not returned *)
InProgress(m, k) ==
    {p \in 1..Len(cfg[k].steps) :
        /\ \E i \in CalledIn(m, k) : m.calls[i][2] = p
        /\ cfg[k].steps[p].name \notin DOMAIN m.inputs}

(* C22: in a chain invocation the steps are called one after another in
   declared order (the j-th call of the chain is for its j-th step), every
   step before the current one has its output in the inputs under its own
   name, and at most one step of the chain is called and not returned: the
   current one. *)
C22_StepsStrictlySequential ==
    HasRun(TheManager) =>
        LET m == TheManager IN
        /\ \A i \in 1..Len(m.calls) :
              m.calls[i][2] = Cardinality({j \in 1..i : m.calls[j][1] = m.calls[i][1]})
        /\ \A k \in 1..Len(cfg) :
              /\ Cardinality(InProgress(m, k)) <= 1
              /\ (m.ci = k /\ m.si >= 1) =>
                    /\ \A p \in 1..(m.si - 1) :
                          /\ p <= Len(cfg[k].steps)
                          /\ cfg[k].steps[p].name \in DOMAIN m.inputs
                    /\ InProgress(m, k) \subseteq {m.si}
                    /\ m.awaiting => InProgress(m, k) = {m.si}
              /\ k < m.ci => InProgress(m, k) = {}

C22_Witness ==
    /\ HasRun(TheManager) /\ TheManager.awaiting
    /\ TheManager.si = 3
    /\ Len(TheManager.calls) = 3
    /\ InProgress(TheManager, 1) = {3}
    /\ {"thought", "insight"} \subseteq DOMAIN TheManager.inputs

-----------------------------------------------------------------------------
(* Replacement of a tracked run, checked under ClientSpec *)

(* the runs created for user u *)
RunsOf(u) == {r \in Runs : mgr[r].status # "unused" /\ mgr[r].user = u}

(* C23 as stated: the derived context of a run that was replaced in the
   tracker is never delivered: whenever get_context(u) returns a run's
   derived context, no newer run of u exists. *)
C23_Original ==
    [][ (GetContextReturned /\ last'.ret \in LlmOutputs) =>
            \A r \in RunsOf(last'.user) : r <= last'.run ]_vars

(* C23 amended: starting a run for a user with a tracked run replaces the
   entry by the new run and leaves the earlier task as it is; a tracked run is
   always the user's newest; a get_context(u) that is called finds the
   tracked, newest run; and a run that is not the tracked one is delivered
   only to a get_context(u) call that was already suspended on it. *)
C23_TrackedIsNewest ==
    \A u \in Users :
        processing_metacognitons[u] # 0 =>
            /\ processing_metacognitons[u] \in RunsOf(u)
            /\ \A r \in RunsOf(u) : r <= processing_metacognitons[u]

C23_Replacement ==
    [][ /\ (last'.op = "create_message_for_session" /\ last'.run # 0
            /\ processing_metacognitons[last'.user] # 0) =>
              LET old == processing_metacognitons[last'.user] IN
              /\ processing_metacognitons'[last'.user] = last'.run
              /\ last'.run # old
              /\ mgr'[old] = mgr[old]
              /\ callers' = callers
        /\ (GetContextCalled /\ processing_metacognitons[last'.user] # 0) =>
              last'.run = processing_metacognitons[last'.user]
        /\ (GetContextReturned /\ processing_metacognitons[last'.user] # last'.run) =>
              /\ callers[last'.caller].pc = "awaiting"
              /\ callers[last'.caller].run = last'.run ]_vars

C23_ReplacedRunOrphaned == []C23_TrackedIsNewest /\ C23_Replacement

C23_Witness ==
    /\ last.op = "get_context" /\ last.err = "none" /\ last.ret \in LlmOutputs
    /\ last.run = 2
    /\ mgr[1].user = last.user /\ mgr[1].status = "done"
    /\ mgr[1].gets = <<>> /\ mgr[1].agent_context \in LlmOutputs
    /\ \A c \in Callers : callers[c].pc = "idle"

-----------------------------------------------------------------------------
(* Properties of the stored user model, checked under StoreSpec *)

(* the step whose call returns in this step of run r *)
ReturningStep(r) == cfg[mgr[r].ci].steps[mgr[r].si]

(* in this step run r issued the call of a step: the one it awaits afterwards *)
CallIssued(r) == mgr'[r].awaiting /\ mgr'[r].calls # mgr[r].calls

IssuedStep(r) == cfg[mgr'[r].ci].steps[mgr'[r].si]

StepReturned == last'.op = "llm_returns"

(* C24: a revision step's return stores the revised text for the run's user;
   a query (or revision) step that is called reads the stored text as it is
   at that moment, the sentinel if nothing was stored; so a query called
   after a revision of the same run completed, in the same chain or in a
   later-declared one, sees the text that revision stored. *)
C24_QuerySeesRevision ==
    [][ \A r \in Runs :
          /\ (StepReturned /\ last'.run = r /\ ReturningStep(r).type = "user_model_revision") =>
                store'[mgr[r].user] = last'.ret
          /\ (CallIssued(r) /\ IssuedStep(r).type \in {"user_model_query", "user_model_revision"}) =>
                mgr'[r].user_context = IF store'[mgr'[r].user] = NoneVal THEN default_user_model
                                       ELSE store'[mgr'[r].user]
          /\ (StepReturned /\ last'.run = r /\ ReturningStep(r).type = "user_model_revision"
              /\ CallIssued(r) /\ IssuedStep(r).type = "user_model_query") =>
                mgr'[r].user_context = last'.ret ]_vars

C24_Witness ==
    \E r \in Runs :
        /\ mgr[r].status = "running" /\ mgr[r].awaiting
        /\ mgr[r].ci = 2
        /\ cfg[2].steps[1].type = "user_model_query"
        /\ cfg[1].steps[1].type = "user_model_revision"
        /\ last.op = "llm_returns" /\ last.run = r
        /\ mgr[r].user_context = last.ret
        /\ mgr[r].user_context \in LlmOutputs

(* C25: the stored user model of a user changes only in a step in which a
   revision step of a run of that user returns, in a chain that is not
   gated; every other step (the return of an inference, tool or query step,
   the start of a task, a provider error, create_message_for_session,
   get_context with the get_agent_context it makes) leaves every user's
   stored text as it was. *)
C25_OnlyRevisionWrites ==
    [][ \A u \in Users :
          store'[u] # store[u] =>
              /\ StepReturned
              /\ mgr[last'.run].user = u
              /\ ReturningStep(last'.run).type = "user_model_revision"
              /\ ~ChainWasGated(mgr[last'.run], mgr[last'.run].ci)
              /\ store'[u] = last'.ret ]_vars

C25_Witness ==
    /\ last.op = "get_context" /\ last.err = "none" /\ last.run # 0
    /\ store[last.user] \in LlmOutputs
    /\ \E u \in Users \ {last.user} : store[u] = NoneVal /\ sessions[u] # <<>>
    /\ cfg[1].steps[1].type = "user_model_revision"

(* C28: a revision step issues one call, with the formatted insight; when it
   returns, the entry written under the step's name is that insight, not the
   revised text, which goes to the store; and when the step is the last of
   its chain the chain's result is the insight. *)
C28_RevisionReturnsInsight ==
    [][ \A r \in Runs :
          (StepReturned /\ last'.run = r /\ ReturningStep(r).type = "user_model_revision") =>
              LET step == ReturningStep(r)
                  insight == <<step.name>> \o mgr[r].inputs[step.refs[1]]
              IN  /\ mgr[r].prompt = insight
                  /\ Cardinality({i \in 1..Len(mgr[r].calls) :
                                     mgr[r].calls[i] = <<mgr[r].ci, mgr[r].si, step.name>>}) = 1
                  /\ mgr'[r].calls[Len(mgr[r].calls)] = <<mgr[r].ci, mgr[r].si, step.name>>
                  /\ mgr'[r].inputs[step.name] = insight
                  /\ mgr'[r].inputs[step.name] # last'.ret
                  /\ store'[mgr[r].user] = last'.ret
                  /\ mgr[r].si = Len(cfg[mgr[r].ci].steps) =>
                        /\ Len(mgr'[r].results) >= mgr[r].ci
                        /\ mgr'[r].results[mgr[r].ci] = insight ]_vars

C28_Witness ==
    \E r \in Runs :
        /\ mgr[r].status = "done"
        /\ Len(cfg) = 2 /\ Len(mgr[r].results) = 2
        /\ cfg[1].steps = <<ReviseUserModelStep("insight", <<"user_message">>)>>
        /\ "insight" \in DOMAIN mgr[r].inputs
        /\ mgr[r].results[1] = <<"insight", "hi">>
        /\ mgr[r].inputs["insight"] = <<"insight", "hi">>
        /\ store[mgr[r].user] = Str("a")

-----------------------------------------------------------------------------
(* Properties of errors, retries and the turn count *)

(* the step the handler of m stands at *)
StepAt(m) == cfg[m.ci].steps[m.si]

AtStep(m) == m.ci \in 1..Len(cfg) /\ m.si \in 1..Len(cfg[m.ci].steps)

AllStepsCalled(m, k) ==
    \A i \in 1..Len(cfg[k].steps) :
        \E j \in 1..Len(m.calls) : m.calls[j] = <<k, i, cfg[k].steps[i].name>>

(* C26 (the states a run can reach): no LLM call or callback is ever issued for a step whose template
   names a key the inputs lack; a run that reaches such a step ends failed
   with KeyError at that step, with no call recorded for it, no entry under
   its name, no result for its chain and the agent context not written; a
   run never completes past such a step. *)
C26_Reached ==
    LET m == TheManager IN
    /\ (m.status = "running" /\ HasRun(m)) => (m.awaiting /\ AtStep(m) /\ ~MissingKey(StepAt(m), m.inputs))
    /\ m.err = "KeyError" =>
          /\ m.status = "failed" /\ ~m.awaiting
          /\ AtStep(m) /\ MissingKey(StepAt(m), m.inputs)
          /\ \A j \in 1..Len(m.calls) : ~(m.calls[j][1] = m.ci /\ m.calls[j][2] = m.si)
          /\ StepAt(m).name \notin DOMAIN m.inputs
          /\ Len(m.results) = m.ci - 1
    /\ (m.status = "done" /\ HasRun(m)) =>
          \A k \in 1..Len(cfg) : ChainWasGated(m, k) \/ AllStepsCalled(m, k)

(* C26: C26_Reached holds throughout, and the step that fails with KeyError
   issues no call, writes no agent context and stores nothing. *)
C26_MissingKeyAborts ==
    /\ []C26_Reached
    /\ [][(TheManager'.err = "KeyError" /\ last'.op \in {"on_user_message", "llm_returns"}) =>
             /\ TheManager'.agent_context = TheManager.agent_context
             /\ TheManager'.calls = IF last'.op = "on_user_message" THEN <<>> ELSE TheManager.calls
             /\ store' = store]_vars

C26_Witness ==
    /\ TheManager.status = "failed" /\ TheManager.err = "KeyError"
    /\ TheManager.ci = 1 /\ TheManager.si = 2
    /\ cfg[1].steps[2].type = "user_model_query"
    /\ TheManager.calls = <<<<1, 1, "thought">>>>
    /\ last.op = "llm_returns"

(* C27: within one run no step is called twice, a step that returns or fails
   leads to at most one new call (of another step), and a provider error
   issues no call at all: the run ends failed with the calls it had. *)
C27_NoRetry ==
    /\ [](\A i, j \in 1..Len(TheManager.calls) :
             (TheManager.calls[i][1] = TheManager.calls[j][1]
              /\ TheManager.calls[i][2] = TheManager.calls[j][2]) => i = j)
    /\ [][ /\ last'.op \in {"llm_returns", "llm_raises"} =>
                /\ Len(TheManager'.calls) <= Len(TheManager.calls) + 1
                /\ SubSeq(TheManager'.calls, 1, Len(TheManager.calls)) = TheManager.calls
                /\ \A j \in 1..Len(TheManager'.calls) :
                      j > Len(TheManager.calls) =>
                          <<TheManager'.calls[j][1], TheManager'.calls[j][2]>> # <<TheManager.ci, TheManager.si>>
           /\ last'.op = "llm_raises" =>
                /\ TheManager'.calls = TheManager.calls
                /\ ~TheManager'.awaiting /\ TheManager'.status = "failed" ]_vars

C27_Witness ==
    /\ last.op = "llm_raises"
    /\ TheManager.status = "failed" /\ TheManager.err = "ProviderError"
    /\ Len(TheManager.calls) = 2
    /\ Len(cfg) = 2 /\ TheManager.ci = 2

(* C29: turns_completed is the floor of (messages - 1) / 2: 0 for the first
   user message, 1 for the user message after one exchange; a chain with
   min_completed_turns = 1 then returns its default_output without a call on
   the first, and on the second a run that completes has called every step
   of it. *)
C29_TurnsCompleted ==
    LET m == TheManager
        n == Len(m.conversation_history)
    IN  HasRun(m) =>
          LET t == m.inputs["turns_completed"][1] IN
          /\ 2 * t <= n - 1 /\ n - 1 < 2 * t + 2
          /\ n = 1 => t = 0
          /\ n = 3 => t = 1
          /\ \A k \in 1..Len(cfg) :
                cfg[k].min_completed_turns = 1 =>
                    /\ (n = 1 /\ k <= Len(m.results)) =>
                          (m.results[k] = cfg[k].default_output /\ CalledIn(m, k) = {})
                    /\ (n = 1) => CalledIn(m, k) = {}
                    /\ (n = 3 /\ k <= Len(m.results)) => AllStepsCalled(m, k)
                    /\ (n = 3 /\ m.ci = k /\ m.status = "running") => CalledIn(m, k) # {}

C29_Witness ==
    /\ HasRun(TheManager) /\ TheManager.status = "done"
    /\ Len(TheManager.conversation_history) = 3
    /\ TheManager.inputs["turns_completed"] = <<1>>
    /\ cfg[1].min_completed_turns = 1
    /\ CalledIn(TheManager, 1) # {}
    /\ Len(cfg) = 2 /\ cfg[2].min_completed_turns = 0

-----------------------------------------------------------------------------
(* Properties of tool steps at load time, checked under LoadSpec *)

WellShapedTool(step_dict) ==
    /\ "type" \in DOMAIN step_dict /\ step_dict.type = "tool"
    /\ RequiredFields("tool") \subseteq DOMAIN step_dict

HasUnregisteredTool(chain_dict, tl) ==
    \E i \in 1..Len(chain_dict.steps) :
        WellShapedTool(chain_dict.steps[i].dict) /\ tl[chain_dict.steps[i].dict.tool] = NoTool

(* the tool steps of what the last load produced *)
BuiltToolSteps ==
    {built.step[i] : i \in {j \in 1..Len(built.step) : built.step[j].type = "tool"}}
    \cup UNION { UNION { {c.steps[i] : i \in {j \in 1..Len(c.steps) : c.steps[j].type = "tool"}}
                         : c \in {built.manager[m].chains[k] : k \in 1..Len(built.manager[m].chains)} }
                 : m \in 1..Len(built.manager) }

(* C30: with the tool step class registered, Step.from_dict on a tool mapping
   whose tool is not in the tool registry raises StepParsingException,
   produces no step and leaves the registry as it was, and a manager whose
   document has such a step is not produced; a mapping whose tool is
   registered yields the tool step.  Every tool step that was built names a
   tool that is in the registry, so the callback it calls later exists. *)
C30_UnregisteredToolFailsAtLoad ==
    /\ [][ (StepFromDictCalled /\ WellShapedTool(StepArg) /\ "tool" \in step_registry) =>
              IF tools[StepArg.tool] = NoTool
              THEN /\ last'.err = "StepParsingException"
                   /\ built'.step = <<>>
                   /\ tools' = tools
              ELSE /\ last'.err = "none"
                   /\ built'.step = <<ToolStep("s", StepArg.prompt, StepArg.tool)>> ]_vars
    /\ [][ (/\ last'.op = "MetacognitionManager"
            /\ "tool" \in step_registry
            /\ \E k \in 1..Len(built'.chain_dicts) : HasUnregisteredTool(built'.chain_dicts[k], tools)) =>
              /\ last'.err # "none"
              /\ built'.manager = <<>> ]_vars
    /\ [](\A step \in BuiltToolSteps : tools[step.tool] # NoTool)

C30_Witness ==
    /\ last.op = "Step.from_dict" /\ last.err = "StepParsingException"
    /\ WellShapedTool(built.step_dict[1])
    /\ "tool" \in step_registry
    /\ tools[built.step_dict[1].tool] = NoTool
    /\ built.step = <<>>

-----------------------------------------------------------------------------
(* Properties of the retained agent context after gated and failed chains,
   checked under Spec *)

AgentContextChains == {k \in 1..Len(cfg) : cfg[k].output = "AgentContext"}

(* the first get_agent_context after the run of TheManager completed *)
FirstGetAfterRun ==
    /\ last'.op = "get_agent_context"
    /\ HasRun(TheManager) /\ TheManager.status = "done"
    /\ TheManager.gets = <<>>

(* C31: when a run completed in which an AgentContext chain j ran and
   returned X and the last AgentContext chain k, declared after j, was
   gated, the first get_agent_context returns k's default_output: not X and
   not default_agent_context. *)
C31_GatedChainOverwrites ==
    [][ FirstGetAfterRun =>
          \A j, k \in AgentContextChains :
              (/\ j < k
               /\ \A i \in AgentContextChains : i <= k
               /\ ~ChainWasGated(TheManager, j)
               /\ ChainWasGated(TheManager, k)) =>
                  /\ last'.ret = cfg[k].default_output
                  /\ last'.ret # TheManager.results[j]
                  /\ last'.ret # TheManager.default_agent_context
                  /\ TheManager.results[j] \in LlmOutputs \cup {<<"insight", "hi">>} ]_vars

C31_Witness ==
    /\ last.op = "get_agent_context"
    /\ HasRun(TheManager) /\ TheManager.status = "done"
    /\ Len(cfg) = 2
    /\ cfg[1].output = "AgentContext" /\ cfg[2].output = "AgentContext"
    /\ ~ChainWasGated(TheManager, 1) /\ ChainWasGated(TheManager, 2)
    /\ TheManager.results[1] = Str("a")
    /\ TheManager.default_agent_context = Str("dac")
    /\ TheManager.gets = <<EmptyStr>>

-----------------------------------------------------------------------------
(* Properties of overlapping and repeated get_context calls, checked under
   ClientSpec *)

(* C32 as stated: a get_context call that ends after awaiting a run whose
   task completed successfully does not raise, also when another call for
   the same user that overlapped with it has already returned the run's
   context and removed the entry. *)
C32_OverlappingGetsSucceed ==
    [][ (/\ last'.op = "get_context" /\ last'.run # 0
         /\ mgr[last'.run].status = "done") =>
            last'.err = "none" ]_vars

(* the run tracked for u has failed *)
TrackedRunFailed(u) ==
    /\ processing_metacognitons[u] # 0
    /\ mgr[processing_metacognitons[u]].status = "failed"

(* a get_context(u) call on the failed run tracked for u raises the run's
   error, returns nothing and leaves the tracker as it was *)
FailedRetrievalKeepsEntry ==
    [][ \A u \in Users :
          (/\ TrackedRunFailed(u)
           /\ last'.op = "get_context" /\ last'.user = u
           /\ last'.run = processing_metacognitons[u]) =>
              /\ last'.err = mgr[processing_metacognitons[u]].err
              /\ last'.ret = NoneVal
              /\ processing_metacognitons' = processing_metacognitons ]_vars

(* C33 as stated: FailedRetrievalKeepsEntry, and the entry of a failed run
   stays in the tracker until a create_message_for_session for its user
   replaces it, so that every get_context(u) in between raises. *)
C33_FailedRunKeepsRaising ==
    /\ FailedRetrievalKeepsEntry
    /\ [][ \A u \in Users :
             TrackedRunFailed(u) =>
                \/ processing_metacognitons'[u] = processing_metacognitons[u]
                \/ last'.op = "create_message_for_session" /\ last'.user = u ]_vars

-----------------------------------------------------------------------------
(* Properties of overlapping runs and of the tool registry, checked under
   StoreSpec *)

(* C34 as stated: when a revision step of a run returns and writes the
   revised text, the stored text it read when it was called is still the
   stored text of its user: no other revision wrote between its read and its
   write, so no write is lost. *)
C34_NoLostUpdate ==
    [][ \A r \in Runs :
          (StepReturned /\ last'.run = r /\ ReturningStep(r).type = "user_model_revision") =>
              mgr[r].user_context = get_user_model(store, mgr[r].user) ]_vars

(* the registry entry of the step's tool name was last written by the load
   of a manager for another user than the run's *)
ReRegistered(r, step) ==
    /\ step.type \in {"user_model_revision", "user_model_query"}
    /\ tools[ToolOf(step)] # mgr[r].user

(* C35: a revision or query step of a run of user u, executed after a manager
   for another user re-registered the tool names, reads u's stored text when
   it is called, and a revision step that returns writes u's entry and leaves
   every other user's entry as it was. *)
C35_CrossUserIsolation ==
    [][ \A r \in Runs :
          /\ (CallIssued(r) /\ ReRegistered(r, IssuedStep(r))) =>
                mgr'[r].user_context = get_user_model(store', mgr[r].user)
          /\ (/\ StepReturned /\ last'.run = r
              /\ ReturningStep(r).type = "user_model_revision"
              /\ ReRegistered(r, ReturningStep(r))) =>
                store' = [store EXCEPT ![mgr[r].user] = last'.ret] ]_vars

C35_Witness ==
    \E r \in Runs :
        /\ last.op = "llm_returns" /\ last.run = r
        /\ mgr[r].user = "u1"
        /\ tools["revise_user_model"] = "u2"
        /\ cfg[1].steps[1].type = "user_model_revision"
        /\ mgr[r].calls # <<>> /\ mgr[r].calls[1] = <<1, 1, "insight">>
        /\ store["u1"] = last.ret
        /\ store["u2"] = NoneVal

-----------------------------------------------------------------------------
(* Properties of a failed run, of termination and of chains without steps *)

(* C36 as stated: after a run of TheManager in which an AgentContext chain
   returned X and a later chain raised, get_agent_context does not return X. *)
C36_FailedRunServesNoEarlierContext ==
    [][ (/\ last'.op = "get_agent_context"
         /\ HasRun(TheManager) /\ TheManager.status = "failed") =>
            \A j \in ReturnedAgentContext(TheManager) :
                ~ChainWasGated(TheManager, j) => last'.ret # TheManager.results[j] ]_vars

(* the number of steps the loaded document configures *)
RECURSIVE TotalSteps(_)
TotalSteps(chains) ==
    IF chains = <<>> THEN 0 ELSE Len(Head(chains).steps) + TotalSteps(Tail(chains))

(* C37: every run that was created ends, done or failed, having issued at
   most as many calls as the document configures steps, and every
   get_context call suspended on a run's task returns or raises. *)
C37_Termination ==
    /\ [](\A r \in Runs : Len(mgr[r].calls) <= TotalSteps(cfg))
    /\ \A r \in Runs : (Live(mgr[r]) ~> mgr[r].status \in {"done", "failed"})
    /\ (callers["g1"].pc = "awaiting") ~> (callers["g1"].pc = "idle")

C37_Witness ==
    /\ last.op = "get_context" /\ last.caller = "g1" /\ last.run = 1
    /\ mgr[1].status = "done" /\ mgr[1].event = "on_user_message"
    /\ Len(mgr[1].calls) = TotalSteps(cfg)
    /\ TotalSteps(cfg) = 2
    /\ mgr[2].status = "failed"

(* C38 as stated: a create_message_for_session on a Client without a
   registered architecture returns without raising, starts no run and leaves
   the tracker as it was; a run is started and tracked only with an
   architecture registered and the message recorded. *)
C38_UnregisteredClientRecordsOnly ==
    [][ last'.op = "create_message_for_session" =>
          /\ ~registered =>
                /\ last'.err = "none"
                /\ nruns' = nruns
                /\ processing_metacognitons' = processing_metacognitons
          /\ (nruns' # nruns \/ processing_metacognitons' # processing_metacognitons) =>
                /\ registered
                /\ Len(sessions'[last'.user]) = Len(sessions[last'.user]) + 1 ]_vars

(* the part of C38 that does not concern the raised error *)
RunOnlyWhenRegistered ==
    [][ last'.op = "create_message_for_session" =>
          /\ ~registered =>
                /\ nruns' = nruns
                /\ processing_metacognitons' = processing_metacognitons
          /\ (nruns' # nruns \/ processing_metacognitons' # processing_metacognitons) =>
                /\ registered
                /\ Len(sessions'[last'.user]) = Len(sessions[last'.user]) + 1 ]_vars

(* C39 as stated: a run of TheManager whose chain is not gated and in which
   no step raised ends with the chain returned, its result the output of its
   last step; for a chain without steps the chain returns as well. *)
C39_ChainReturnsLastOutput ==
    LET m == TheManager IN
    (/\ HasRun(m) /\ ~Live(m)
     /\ ~ChainWasGated(m, 1)
     /\ m.err \notin {"ProviderError", "KeyError"}) =>
        /\ m.status = "done"
        /\ Len(m.results) = 1
        /\ cfg[1].steps # <<>> =>
              m.results[1] = m.inputs[cfg[1].steps[Len(cfg[1].steps)].name]

(* the part of C39 about chains that have steps *)
NonEmptyChainReturnsLastOutput ==
    LET m == TheManager IN
    (/\ HasRun(m) /\ ~Live(m)
     /\ ~ChainWasGated(m, 1)
     /\ cfg[1].steps # <<>>
     /\ m.err \notin {"ProviderError", "KeyError"}) =>
        /\ m.status = "done"
        /\ Len(m.results) = 1
        /\ m.results[1] = m.inputs[cfg[1].steps[Len(cfg[1].steps)].name]

====
